---- MODULE Spec2Model ----
(***************************************************************************)
(* Backtest-artifact reconstruction and robustness validation of simpleEA. *)
(*                                                                         *)
(*   Trade Reconstructor      src/parser/trade_extractor.py                *)
(*   Optimization Pass Joiner src/optimizer/result_parser.py               *)
(*   Monte Carlo Resampler    src/tester/montecarlo.py                     *)
(*   Walk-Forward Scheduler   src/tester/walk_forward.py                   *)
(*                            src/scripts/run_walk_forward.py              *)
(*   Workflow State Manager   src/workflow/state_manager.py                *)
(*   Post-step bookkeeping    src/workflow/post_steps.py                   *)
(*                            src/scripts/web_app.py                       *)
(*                                                                         *)
(* Money is counted in whole units (integers); a percentage and a mean are *)
(* kept as exact fractions or scaled integers, as noted at each field.     *)
(***************************************************************************)
EXTENDS Integers, Sequences, FiniteSets, TLC

VARIABLES
    \* ---- TradeExtractor._parse_deals ----
    log,                \* the rows of the deals table matched so far (history)
    trades,             \* trades: List[Trade]
    initial_balance,
    final_balance,
    total_commission,
    total_swap,
    previous_balance,   \* Optional[float]: <<>> is None, <<b>> is b
    open_positions,     \* dict[(symbol, direction)] -> list of entry dicts
    te_result,          \* <<>> while the loop runs, <<TradeExtractionResult>> after
    \* ---- OptimizationResultParser.parse ----
    insample_xml,       \* the in-sample export file
    forward_xml,        \* the forward export file
    robust_only,        \* parse's local list of robust results, as sorted
    parse_result,       \* <<>> before parse returns, <<its dict>> after
    \* ---- MonteCarloSimulator ----
    mc_trades,          \* run's argument trades (each Trade by its net_profit)
    mc_initial_balance, \* run's argument initial_balance
    iterations,         \* self.iterations
    ruin_threshold_pct, \* self.ruin_threshold_pct
    rng,                \* state of the process-wide generator of module random
    mc_pc,              \* "idle", "ready", "running", "done", "raised"
    profits,            \* run's local profits
    original_profit,    \* run's local original_profit
    original_stats,     \* run's local original_stats: <<>> or <<EquityCurveStats>>
    results,            \* run's local results: List[EquityCurveStats]
    shuffled_log,       \* history: the list replayed in each iteration
    mc_result,          \* <<>> or <<MonteCarloResult>>
    is_robust,          \* <<>> or <<value read from the is_robust property>>
    run_seed,           \* history: <<>> or <<seed of the last construction>>
    runs,               \* history: number of run() calls begun
    first_seeded,       \* history: per seed, the first result of a seeded run
    \* ---- WalkForwardTester and run_walk_forward.main ----
    wf_self,            \* <<>> or <<the tester's fields>>
    wf_args,            \* <<>> or <<[from_date, to_date]>> of the call
    wf_folds,           \* the list _fold_windows returned (its local folds meanwhile)
    wf_oos_start,       \* _fold_windows' local oos_start: <<>> outside its loop
    wf_pc,              \* "idle", "ready", "windows", "is", "oos", "returned", "summarized"
    wf_is_res,          \* test's local is_res: <<>> is None
    wf_out,             \* test's local out: List[FoldResult]
    engine_requests,    \* history: the requests BacktestRunner.run received
    wf_result,          \* <<>> or <<WalkForwardResult>>
    wf_summary,         \* <<>> or <<main's summary dict>>
    \* ---- calls of the pure functions _add_months and _percentile ----
    am_args,            \* <<>> or <<[d, months]>>
    am_ret,             \* <<>> or <<the date returned>>
    pct_args,           \* <<>> or <<[data, p1, p2]>>
    pct_ret,            \* <<>> or <<the values returned>>
    \* ---- WorkflowStateManager ----
    ws_steps,           \* self.state.steps: step name -> StepState
    ws_current_step,    \* self.state.current_step
    ws_ret,             \* <<>> or <<success>>: what the last call returned, without the message
    ws_passed_ever,     \* history: the steps that have reached PASSED so far
    \* ---- post-step modules on one workflow state file ----
    ps_file,            \* the "post_steps" list in the state file
    ps_pc,              \* per module process: where it stands
    ps_data,            \* per process: <<>> or <<the list it loaded>> (local data)
    ps_run_id,          \* per process: <<>> or <<the run id start_post_step returned>>
    ps_final            \* per process: <<>> or <<the status its last call set>>

teVars == <<log, trades, initial_balance, final_balance, total_commission,
            total_swap, previous_balance, open_positions, te_result>>

joinVars == <<insample_xml, forward_xml, robust_only, parse_result>>

mcVars == <<mc_trades, mc_initial_balance, iterations, ruin_threshold_pct,
            rng, mc_pc, profits, original_profit, original_stats, results,
            shuffled_log, mc_result, is_robust, run_seed, runs, first_seeded>>

wfVars == <<wf_self, wf_args, wf_folds, wf_oos_start, wf_pc, wf_is_res, wf_out,
            engine_requests, wf_result, wf_summary>>

fnVars == <<am_args, am_ret, pct_args, pct_ret>>

wsVars == <<ws_steps, ws_current_step, ws_ret, ws_passed_ever>>

psVars == <<ps_file, ps_pc, ps_data, ps_run_id, ps_final>>

vars == <<teVars, joinVars, mcVars, wfVars, fnVars, wsVars, psVars>>

\* What each component leaves alone
NotTE == <<joinVars, mcVars, wfVars, fnVars, wsVars, psVars>>
NotJoin == <<teVars, mcVars, wfVars, fnVars, wsVars, psVars>>
NotMC == <<teVars, joinVars, wfVars, fnVars, wsVars, psVars>>
NotWF == <<teVars, joinVars, mcVars, fnVars, wsVars, psVars>>
NotFn == <<teVars, joinVars, mcVars, wfVars, wsVars, psVars>>
NotWS == <<teVars, joinVars, mcVars, wfVars, fnVars, psVars>>
NotPS == <<teVars, joinVars, mcVars, wfVars, fnVars, wsVars>>

(***************************************************************************)
(* Generic helpers                                                         *)
(***************************************************************************)
RECURSIVE SumSeq(_)
SumSeq(s) == IF s = <<>> THEN 0 ELSE Head(s) + SumSeq(Tail(s))

\* s without its last element (list.pop() leaves this behind)
Front(s) == SubSeq(s, 1, Len(s) - 1)

Last(s) == s[Len(s)]

(***************************************************************************)
(* Trade Reconstructor                                                     *)
(***************************************************************************)
Symbols == {"EURUSD", "GBPUSD"}
DealTypes == {"buy", "sell"}

\* Longest deal log explored by the pairing specification, and by the
\* balance specification
MaxDeals == 4
MaxBalanceDeals == 5

\* Prices in 1e-4 units; the n-th row of a log quotes its own price, so an
\* entry price identifies the opening deal it came from.
PriceAt(n) == 11000 + 10 * n

\* A buy/sell row without a running balance (the Balance cell is empty or
\* unparsable, which _parse_float turns into 0).
TradeRow(n, s, t, d) ==
    [deal_id |-> n, symbol |-> s, type |-> t, direction |-> d,
     price |-> PriceAt(n),
     commission |-> IF d = "in" THEN -1 ELSE -2,
     swap |-> IF d = "out" THEN -3 ELSE 0,
     profit |-> IF d = "out" THEN 7 ELSE 0,
     balance |-> 0]

\* A deposit row: type "balance", the deposit in the Profit cell.
BalanceRow(n, amount, bal) ==
    [deal_id |-> n, symbol |-> "", type |-> "balance", direction |-> "",
     price |-> 0, commission |-> 0, swap |-> 0, profit |-> amount,
     balance |-> bal]

\* Rows of the pairing specification: every instrument, side and leg, a leg
\* that is neither "in" nor "out", and a deposit row.
RowsMatch(n) ==
    {TradeRow(n, s, t, d) : s \in Symbols, t \in DealTypes, d \in {"in", "out"}}
        \cup {TradeRow(n, "EURUSD", "buy", "in/out")}
        \cup {BalanceRow(n, 1000, 1000)}

\* Rows of the balance specification: one instrument, no commission or swap,
\* and the engine's running balance on every row: an opening deal leaves the
\* balance of the row before it, a closing deal adds its realized profit.
RealizedProfits == {-10, 10, 30}

RowsBalance(n, prev) ==
    {[TradeRow(n, "EURUSD", t, "in") EXCEPT !.balance = prev, !.commission = 0,
                                            !.swap = 0, !.profit = 0] :
        t \in DealTypes}
    \cup
    {[TradeRow(n, "EURUSD", t, "out") EXCEPT !.balance = prev + p,
                                             !.commission = 0, !.swap = 0,
                                             !.profit = p] :
        t \in DealTypes, p \in RealizedProfits}

\* Longest log of the balance-marker specification, and its deposits and
\* withdrawals
MaxMarkerDeals == 3
MarkerAmounts == {-200, 500}

\* Rows of the balance-marker specification: deposits and withdrawals at any
\* place, and buy/sell rows whose Balance cell is empty or holds the running
\* balance after the row
RowsMarkers(n, prev) ==
    {BalanceRow(n, a, prev + a) : a \in MarkerAmounts}
    \cup
    UNION {{[TradeRow(n, "EURUSD", t, d) EXCEPT !.balance = b] :
               b \in {0, prev + TradeRow(n, "EURUSD", t, d).profit}} :
           t \in DealTypes, d \in {"in", "out"}}

Keys == Symbols \X DealTypes

\* open_dir = "sell" if deal_type == "buy" else "buy"
OpenDir(deal_type) == IF deal_type = "buy" THEN "sell" ELSE "buy"

\* entry_info.pop(): the entry taken off the stack (the FIFO variant is the
\* mutation used to test the pairing claims)
PopEntryFifo(stack) == [entry |-> Head(stack), rest |-> Tail(stack)]

\* (a variant that reads the last entry and leaves it on the stack)
PopEntryPeek(stack) == [entry |-> Last(stack), rest |-> stack]

PopEntry(stack) == [entry |-> Last(stack), rest |-> Front(stack)]

\* net_profit of a Trade built from closing row r with entry commission ec,
\* entry swap es and entry balance_before ebb
NetProfit(r, ec, es, ebb) ==
    IF r.balance > 0 THEN r.balance - ebb
    ELSE r.profit + ec + r.commission + es + r.swap

\* if balance > 0: final_balance = balance (lines 178-180)
FinalBalanceOfBalanceRows(r, final) ==
    IF r.type = "balance" /\ r.balance > 0 THEN r.balance ELSE final

FinalBalance(r, final) == IF r.balance > 0 THEN r.balance ELSE final

\* The values the closing branch uses "if entry else" (lines 214-218): what
\* the trade is built from when the stack was empty
NoEntrySameSide(open_dir, balance_before) ==
    [price |-> 0, direction |-> OpenDir(open_dir), commission |-> 0,
     swap |-> 0, balance_before |-> balance_before]

NoEntry(open_dir, balance_before) ==
    [price |-> 0, direction |-> open_dir, commission |-> 0, swap |-> 0,
     balance_before |-> balance_before]

\* One iteration of the loop over the matched rows (lines 151-234).
ParseDeal(r) ==
    LET balance_before ==
            IF previous_balance = <<>> THEN r.balance ELSE previous_balance[1]
        key_in == <<r.symbol, r.type>>
        open_dir == OpenDir(r.type)
        key_out == <<r.symbol, open_dir>>
        stack == open_positions[key_out]
        popped == PopEntry(stack)
        has_entry == stack # <<>>
        entry == IF has_entry THEN popped.entry
                 ELSE NoEntry(open_dir, balance_before)
        entry_price == entry.price
        trade_direction == entry.direction
        entry_commission == entry.commission
        entry_swap == entry.swap
        entry_balance_before == entry.balance_before
    IN
    /\ te_result = <<>>
    /\ log' = Append(log, r)
    /\ previous_balance' = IF r.balance > 0 THEN <<r.balance>> ELSE previous_balance
    /\ initial_balance' =
          IF r.type = "balance" /\ initial_balance = 0 THEN r.profit
          ELSE initial_balance
    /\ final_balance' = FinalBalance(r, final_balance)
    /\ IF r.type \notin DealTypes
       THEN UNCHANGED <<total_commission, total_swap, open_positions, trades>>
       ELSE /\ total_commission' = total_commission + r.commission
            /\ total_swap' = total_swap + r.swap
            /\ IF r.direction = "in"
               THEN /\ open_positions' =
                          [open_positions EXCEPT ![key_in] =
                              Append(@, [deal_id |-> r.deal_id,
                                         symbol |-> r.symbol,
                                         direction |-> r.type,
                                         price |-> r.price,
                                         commission |-> r.commission,
                                         swap |-> r.swap,
                                         balance_before |-> balance_before])]
                    /\ UNCHANGED trades
               ELSE IF r.direction = "out"
               THEN /\ open_positions' =
                          IF has_entry
                          THEN [open_positions EXCEPT ![key_out] = popped.rest]
                          ELSE open_positions
                    /\ trades' = Append(trades,
                          [deal_id |-> r.deal_id,
                           symbol |-> r.symbol,
                           direction |-> trade_direction,
                           entry_price |-> entry_price,
                           exit_price |-> r.price,
                           commission |-> entry_commission + r.commission,
                           swap |-> entry_swap + r.swap,
                           profit |-> r.profit,
                           net_profit |-> NetProfit(r, entry_commission,
                                                    entry_swap,
                                                    entry_balance_before)])
               ELSE UNCHANGED <<open_positions, trades>>
    /\ UNCHANGED te_result
    /\ UNCHANGED NotTE

NetProfits(ts) == [i \in 1..Len(ts) |-> ts[i].net_profit]
GrossProfits(ts) == [i \in 1..Len(ts) |-> ts[i].profit]

\* The rows are exhausted: totals and the returned TradeExtractionResult
\* (lines 236-248).
ReturnResult ==
    /\ te_result = <<>>
    /\ te_result' = <<[success |-> TRUE,
                       trades |-> trades,
                       total_profit |-> SumSeq(GrossProfits(trades)),
                       total_commission |-> total_commission,
                       total_swap |-> total_swap,
                       total_net_profit |-> SumSeq(NetProfits(trades)),
                       initial_balance |-> initial_balance,
                       final_balance |-> final_balance]>>
    /\ UNCHANGED <<log, trades, initial_balance, final_balance,
                   total_commission, total_swap, previous_balance,
                   open_positions>>
    /\ UNCHANGED NotTE

InitTE ==
    /\ log = <<>>
    /\ trades = <<>>
    /\ initial_balance = 0
    /\ final_balance = 0
    /\ total_commission = 0
    /\ total_swap = 0
    /\ previous_balance = <<>>
    /\ open_positions = [k \in Keys |-> <<>>]
    /\ te_result = <<>>

(***************************************************************************)
(* Optimization Pass Joiner                                                *)
(***************************************************************************)
\* Pass numbers of one optimization run
NPass == 6
Passes == 1..NPass

\* top_5 keeps robust_only[:5]
TopN == 5

\* What one pass shows in the two exports: its in-sample profit and its
\* forward profit, each <<>> when the export has no row for the pass.
PassKinds ==
    { [ins |-> <<5>>,   fwd |-> <<>>],
      [ins |-> <<>>,    fwd |-> <<1>>],
      [ins |-> <<5>>,   fwd |-> <<-1>>],
      [ins |-> <<5>>,   fwd |-> <<1>>],
      [ins |-> <<120>>, fwd |-> <<1>>] }

\* Passes that break even in one window
BoundaryKinds ==
    { [ins |-> <<0>>,   fwd |-> <<1>>],
      [ins |-> <<5>>,   fwd |-> <<0>>],
      [ins |-> <<5>>,   fwd |-> <<1>>] }

\* The kinds drawn when an export is missing or has no Pass column (its rows
\* are then never read).
FewKinds ==
    { [ins |-> <<5>>,   fwd |-> <<1>>],
      [ins |-> <<120>>, fwd |-> <<-5>>] }

\* The data rows of an export, in file order (ascending pass number); the
\* other metric cells and the parameter cells are copied through by parse
\* and left out here.
RECURSIVE RowsOf(_, _, _)
RowsOf(kinds, side, p) ==
    IF p > NPass THEN <<>>
    ELSE LET cell == IF side = "ins" THEN kinds[p].ins ELSE kinds[p].fwd
         IN  (IF cell = <<>> THEN <<>>
              ELSE <<[pass |-> p, profit |-> cell[1]]>>)
             \o RowsOf(kinds, side, p + 1)

\* status: "ok" (header row with a Pass column), "noheader" (no header row
\* or no Pass column), "missing" (no such file)
ExportFile(status, kinds, side) ==
    [exists |-> status # "missing",
     has_pass |-> status = "ok",
     rows |-> IF status = "missing" THEN <<>> ELSE RowsOf(kinds, side, 1)]

\* results[pass_num] = result on an insertion-ordered dict
RECURSIVE DictPut(_, _)
DictPut(d, row) ==
    IF d = <<>> THEN <<row>>
    ELSE IF Head(d).pass = row.pass THEN <<row>> \o Tail(d)
    ELSE <<Head(d)>> \o DictPut(Tail(d), row)

RECURSIVE DictOfRows(_)
DictOfRows(rows) ==
    IF rows = <<>> THEN <<>>
    ELSE DictPut(DictOfRows(Front(rows)), Last(rows))

\* _parse_xml: pass_idx is None when the header has no Pass column, and then
\* every data row is skipped.
ParseXml(file) ==
    IF ~file.has_pass THEN <<>> ELSE DictOfRows(file.rows)

DictHas(d, p) == \E i \in 1..Len(d) : d[i].pass = p
DictGet(d, p) == d[CHOOSE i \in 1..Len(d) : d[i].pass = p]

\* is_robust = insample['profit'] > 0 and forward['profit'] > 0
IsRobustPassOr(ins_profit, fwd_profit) == ins_profit > 0 \/ fwd_profit > 0

IsRobustPass(ins_profit, fwd_profit) == ins_profit > 0 /\ fwd_profit > 0

\* The join loop (lines 134-155): one RobustResult per in-sample pass that
\* the forward results hold too, in the in-sample dict's order.
RECURSIVE JoinResults(_, _)
JoinResults(ins, fwd) ==
    IF ins = <<>> THEN <<>>
    ELSE LET i == Head(ins)
         IN  (IF DictHas(fwd, i.pass)
              THEN LET f == DictGet(fwd, i.pass)
                   IN  <<[pass_num |-> i.pass,
                          in_sample_profit |-> i.profit,
                          forward_profit |-> f.profit,
                          total_profit |-> i.profit + f.profit,
                          is_robust |-> IsRobustPass(i.profit, f.profit)]>>
              ELSE <<>>)
             \o JoinResults(Tail(ins), fwd)

\* robust_only = [r for r in robust_results if r.is_robust]
FilterRobust(rs) == SelectSeq(rs, LAMBDA r : r.is_robust)

\* list.sort(key=total_profit, reverse=True): stable, descending
RECURSIVE InsertDesc(_, _)
InsertDesc(s, x) ==
    IF s = <<>> THEN <<x>>
    ELSE IF Last(s).total_profit >= x.total_profit THEN Append(s, x)
    ELSE Append(InsertDesc(Front(s), x), Last(s))

RECURSIVE SortAscending(_)
SortAscending(s) ==
    IF s = <<>> THEN <<>>
    ELSE LET r == SortAscending(Tail(s))
             lo == SelectSeq(r, LAMBDA y : y.total_profit < Head(s).total_profit)
             hi == SelectSeq(r, LAMBDA y : y.total_profit >= Head(s).total_profit)
         IN  lo \o <<Head(s)>> \o hi

RECURSIVE SortByTotalProfit(_)
SortByTotalProfit(s) ==
    IF s = <<>> THEN <<>>
    ELSE InsertDesc(SortByTotalProfit(Front(s)), Last(s))

\* robust_only[:5]
TopSlice(s) == SubSeq(s, 1, IF Len(s) < TopN THEN Len(s) ELSE TopN)

\* OptimizationResultParser.parse (lines 111-173)
Parse ==
    /\ parse_result = <<>>
    /\ IF ~insample_xml.exists
       THEN /\ parse_result' = <<[success |-> FALSE,
                                  error |-> "In-sample XML not found"]>>
            /\ UNCHANGED robust_only
       ELSE IF ~forward_xml.exists
       THEN /\ parse_result' = <<[success |-> FALSE,
                                  error |-> "Forward XML not found"]>>
            /\ UNCHANGED robust_only
       ELSE LET insample_results == ParseXml(insample_xml)
                forward_results == ParseXml(forward_xml)
                robust_results == JoinResults(insample_results, forward_results)
                sorted == SortByTotalProfit(FilterRobust(robust_results))
            IN  /\ robust_only' = sorted
                /\ parse_result' =
                      <<[success |-> TRUE,
                         total_passes |-> Len(robust_results),
                         robust_passes |-> Len(sorted),
                         best |-> IF sorted = <<>> THEN <<>> ELSE <<Head(sorted)>>,
                         top_5 |-> TopSlice(sorted)]>>
    /\ UNCHANGED <<insample_xml, forward_xml>>
    /\ UNCHANGED NotJoin

NoFile == [exists |-> FALSE, has_pass |-> FALSE, rows |-> <<>>]

\* No export looked at (the other components' specifications)
JoinIdle ==
    /\ insample_xml = NoFile
    /\ forward_xml = NoFile
    /\ robust_only = <<>>
    /\ parse_result = <<>>

ExportStatus == {"ok", "noheader", "missing"}

InitJoin ==
    /\ \/ \E kinds \in [Passes -> PassKinds] \cup [Passes -> BoundaryKinds] :
             /\ insample_xml = ExportFile("ok", kinds, "ins")
             /\ forward_xml = ExportFile("ok", kinds, "fwd")
       \/ \E kinds \in [Passes -> FewKinds], si \in ExportStatus, sf \in ExportStatus :
             /\ <<si, sf>> # <<"ok", "ok">>
             /\ insample_xml = ExportFile(si, kinds, "ins")
             /\ forward_xml = ExportFile(sf, kinds, "fwd")
    /\ robust_only = <<>>
    /\ parse_result = <<>>

(***************************************************************************)
(* Monte Carlo Resampler                                                   *)
(*                                                                         *)
(* A value that need not be whole is an exact fraction [num, den], den > 0.*)
(* profit_std is the square root of the fraction it holds.                 *)
(***************************************************************************)
\* Longest trade list, largest iteration count, most run() calls explored
MaxTrades == 3
MaxIter == 2
MaxRuns == 2

\* is_robust: confidence_level >= 70 and probability_of_ruin <= 5
RobustConfidenceMin == 70
RobustRuinMax == 5

TradeProfits == {-50, -10, 30}
InitialBalances == {100, 200}
RuinThresholdPcts == {50}
Seeds == {1, 2}

\* Optional[int]: <<>> is None
SeedOpts == {<<>>} \cup {<<sd>> : sd \in Seeds}

\* The generator behind random.shuffle, as a deterministic state machine: a
\* state, a step, and the state random.seed(seed) puts it in.
RngStates == 1..10
RngNext(st) == (2 * st) % 11
SeedState(seed) == (3 * seed) % 11

\* random's _randbelow(n): one step, a value in 0..n-1
RandBelow(st, n) == [value |-> RngNext(st) % n, state |-> RngNext(st)]

\* __init__: if seed is not None: random.seed(seed)
SeedRngIgnored(seed_opt, before) == before

SeedRng(seed_opt, before) ==
    IF seed_opt # <<>> THEN SeedState(seed_opt[1]) ELSE before

Swap(x, i, j) == [x EXCEPT ![i] = x[j], ![j] = x[i]]

\* random.shuffle(x): for i in reversed(range(1, len(x))):
\*                        j = randbelow(i + 1); x[i], x[j] = x[j], x[i]
RECURSIVE ShuffleFrom(_, _, _)
ShuffleFrom(x, i, st) ==
    IF i < 2 THEN [list |-> x, state |-> st]
    ELSE LET d == RandBelow(st, i)
         IN  ShuffleFrom(Swap(x, i, d.value + 1), i - 1, d.state)

\* A shuffle that draws each position afresh (with replacement)
RECURSIVE ResampleFrom(_, _, _, _)
ResampleFrom(x, orig, i, st) ==
    IF i < 1 THEN [list |-> x, state |-> st]
    ELSE LET d == RandBelow(st, Len(orig))
         IN  ResampleFrom([x EXCEPT ![i] = orig[d.value + 1]], orig, i - 1, d.state)

ShuffleWithReplacement(x, st) == ResampleFrom(x, x, Len(x), st)

Shuffle(x, st) == ShuffleFrom(x, Len(x), st)

Frac(n, d) == [num |-> n, den |-> d]
Whole(n) == Frac(n, 1)

\* if equity <= ruin_threshold, with
\* ruin_threshold = initial_balance * (1 - ruin_threshold_pct / 100)
RuinHitStrict(equity, initial, pct) == equity * 100 < initial * (100 - pct)

RuinHit(equity, initial, pct) == equity * 100 <= initial * (100 - pct)

\* The body of the loop of _calculate_equity_stats (lines 189-208)
EquityStep(acc, profit, initial, pct) ==
    LET equity == acc.final_equity + profit
        peak == IF equity > acc.peak_equity THEN equity ELSE acc.peak_equity
        lowest == IF equity < acc.lowest_equity THEN equity ELSE acc.lowest_equity
        drawdown == peak - equity
        deeper == drawdown > acc.max_drawdown
    IN  [final_equity |-> equity,
         peak_equity |-> peak,
         lowest_equity |-> lowest,
         max_drawdown |-> IF deeper THEN drawdown ELSE acc.max_drawdown,
         max_drawdown_pct |->
             IF deeper
             THEN (IF peak > 0 THEN Frac(drawdown * 100, peak) ELSE Whole(0))
             ELSE acc.max_drawdown_pct,
         ruin_occurred |-> acc.ruin_occurred \/ RuinHit(equity, initial, pct)]

RECURSIVE EquityFold(_, _, _, _)
EquityFold(acc, ps, initial, pct) ==
    IF ps = <<>> THEN acc
    ELSE EquityFold(EquityStep(acc, Head(ps), initial, pct), Tail(ps), initial, pct)

\* _calculate_equity_stats (lines 175-217)
CalculateEquityStats(ps, initial, pct) ==
    EquityFold([final_equity |-> initial,
                peak_equity |-> initial,
                lowest_equity |-> initial,
                max_drawdown |-> 0,
                max_drawdown_pct |-> Whole(0),
                ruin_occurred |-> FALSE],
               ps, initial, pct)

\* sorted(data)
RECURSIVE InsertAsc(_, _)
InsertAsc(s, x) ==
    IF s = <<>> THEN <<x>>
    ELSE IF Last(s) <= x THEN Append(s, x)
    ELSE Append(InsertAsc(Front(s), x), Last(s))

RECURSIVE Sorted(_)
Sorted(s) == IF s = <<>> THEN <<>> ELSE InsertAsc(Sorted(Front(s)), Last(s))

\* _percentile without its sorted(data)
PercentileUnsorted(data, p) ==
    IF data = <<>> THEN Whole(0)
    ELSE LET k100 == (Len(data) - 1) * p
             f == k100 \div 100
             c == IF k100 % 100 = 0 THEN f ELSE f + 1
         IN  IF f = c THEN Frac(data[f + 1] * 100, 100)
             ELSE Frac(data[f + 1] * (c * 100 - k100)
                           + data[c + 1] * (k100 - f * 100), 100)

\* _percentile (lines 219-229): k = (n - 1) * p / 100, f = floor(k),
\* c = ceil(k); the value in hundredths
Percentile(data, p) ==
    IF data = <<>> THEN Whole(0)
    ELSE LET sorted_data == Sorted(data)
             k100 == (Len(data) - 1) * p
             f == k100 \div 100
             c == IF k100 % 100 = 0 THEN f ELSE f + 1
         IN  IF f = c THEN Frac(sorted_data[f + 1] * 100, 100)
             ELSE Frac(sorted_data[f + 1] * (c * 100 - k100)
                           + sorted_data[c + 1] * (k100 - f * 100), 100)

\* _std (lines 231-237): sqrt(sum((x - mean)^2) / (n - 1)), the fraction
\* under the root with x - mean = (n x - sum) / n
RECURSIVE SumSqDev(_, _, _)
SumSqDev(data, n, total) ==
    IF data = <<>> THEN 0
    ELSE (n * Head(data) - total) * (n * Head(data) - total)
             + SumSqDev(Tail(data), n, total)

Std(data) ==
    IF Len(data) < 2 THEN Whole(0)
    ELSE Frac(SumSqDev(data, Len(data), SumSeq(data)),
              Len(data) * Len(data) * (Len(data) - 1))

\* _empty_result (lines 239-258)
EmptyResultNoRuin(initial, pct) ==
    [iterations |-> 0, initial_balance |-> initial,
     median_profit |-> Whole(0), mean_profit |-> Whole(0),
     profit_std |-> Whole(0),
     profit_5th_percentile |-> Whole(0), profit_95th_percentile |-> Whole(0),
     median_max_drawdown |-> Whole(0), mean_max_drawdown |-> Whole(0),
     max_drawdown_95th_percentile |-> Whole(0),
     confidence_level |-> Whole(0), probability_of_ruin |-> Whole(0),
     ruin_threshold_pct |-> pct,
     original_profit |-> 0, original_drawdown |-> 0, trade_count |-> 0]

EmptyResult(initial, pct) ==
    [iterations |-> 0, initial_balance |-> initial,
     median_profit |-> Whole(0), mean_profit |-> Whole(0),
     profit_std |-> Whole(0),
     profit_5th_percentile |-> Whole(0), profit_95th_percentile |-> Whole(0),
     median_max_drawdown |-> Whole(0), mean_max_drawdown |-> Whole(0),
     max_drawdown_95th_percentile |-> Whole(0),
     confidence_level |-> Whole(0), probability_of_ruin |-> Whole(100),
     ruin_threshold_pct |-> pct,
     original_profit |-> 0, original_drawdown |-> 0, trade_count |-> 0]

CountIf(s, Test(_)) == Len(SelectSeq(s, Test))

\* The MonteCarloResult built at lines 141-173; len(final_equities) > 0
BuildResult ==
    LET final_equities ==
            [i \in 1..Len(results) |-> results[i].final_equity - mc_initial_balance]
        max_drawdowns == [i \in 1..Len(results) |-> results[i].max_drawdown]
        ruin_count == CountIf(results, LAMBDA r : r.ruin_occurred)
    IN  [iterations |-> iterations,
         initial_balance |-> mc_initial_balance,
         median_profit |-> Percentile(final_equities, 50),
         mean_profit |-> Frac(SumSeq(final_equities), Len(final_equities)),
         profit_std |-> Std(final_equities),
         profit_5th_percentile |-> Percentile(final_equities, 5),
         profit_95th_percentile |-> Percentile(final_equities, 95),
         median_max_drawdown |-> Percentile(max_drawdowns, 50),
         mean_max_drawdown |-> Frac(SumSeq(max_drawdowns), Len(max_drawdowns)),
         max_drawdown_95th_percentile |-> Percentile(max_drawdowns, 95),
         confidence_level |->
             Frac(CountIf(final_equities, LAMBDA e : e > 0) * 100,
                  Len(final_equities)),
         probability_of_ruin |-> Frac(ruin_count * 100, iterations),
         ruin_threshold_pct |-> ruin_threshold_pct,
         original_profit |-> original_profit,
         original_drawdown |-> original_stats[1].max_drawdown,
         trade_count |-> Len(mc_trades)]

\* History: the first result of a run begun right after seeding with a seed
Remember(result) ==
    IF run_seed = <<>> THEN first_seeded
    ELSE [first_seeded EXCEPT ![run_seed[1]] =
              IF @ = <<>> THEN <<[result |-> result, count |-> 1]>>
              ELSE <<[@[1] EXCEPT !.count = @ + 1]>>]

\* MonteCarloSimulator(iterations, ruin_threshold_pct, seed): a new
\* simulator with the same settings, seeded or not (lines 86-103)
Construct(seed_opt) ==
    /\ mc_pc \in {"done", "raised"}
    /\ runs < MaxRuns
    /\ rng' = SeedRng(seed_opt, rng)
    /\ run_seed' = seed_opt
    /\ mc_pc' = "ready"
    /\ profits' = <<>>
    /\ original_profit' = 0
    /\ original_stats' = <<>>
    /\ results' = <<>>
    /\ shuffled_log' = <<>>
    /\ mc_result' = <<>>
    /\ UNCHANGED <<mc_trades, mc_initial_balance, iterations,
                   ruin_threshold_pct, is_robust, runs, first_seeded>>
    /\ UNCHANGED NotMC

ConstructSeeded == \E sd \in Seeds : Construct(<<sd>>)

ConstructUnseeded == Construct(<<>>)

\* run, up to the loop (lines 120-134)
RunStart ==
    /\ mc_pc = "ready"
    /\ runs' = runs + 1
    /\ IF mc_trades = <<>>
       THEN /\ mc_result' = <<EmptyResult(mc_initial_balance, ruin_threshold_pct)>>
            /\ first_seeded' =
                  Remember(EmptyResult(mc_initial_balance, ruin_threshold_pct))
            /\ mc_pc' = "done"
            /\ UNCHANGED <<profits, original_profit, original_stats>>
       ELSE /\ profits' = [i \in 1..Len(mc_trades) |-> mc_trades[i].net_profit]
            /\ original_profit' = SumSeq(profits')
            /\ original_stats' =
                  <<CalculateEquityStats(profits', mc_initial_balance,
                                         ruin_threshold_pct)>>
            /\ mc_pc' = "running"
            /\ UNCHANGED <<mc_result, first_seeded>>
    /\ UNCHANGED <<mc_trades, mc_initial_balance, iterations,
                   ruin_threshold_pct, rng, results, shuffled_log, is_robust,
                   run_seed>>
    /\ UNCHANGED NotMC

\* The caller's trade list after shuffled = profits.copy();
\* random.shuffle(shuffled) (lines 136-137): the shuffle permutes a new
\* list of numbers, not the list of Trade objects (the variant shuffles the
\* trades themselves)
TradesShuffledInPlace(trade_list, shuffled) ==
    [i \in 1..Len(trade_list) |->
        [trade_list[i] EXCEPT !.net_profit = shuffled[i]]]

TradesAfterShuffle(trade_list, shuffled) == trade_list

\* One iteration of the simulation loop (lines 135-139)
Iterate ==
    /\ mc_pc = "running"
    /\ Len(results) < iterations
    /\ LET sh == Shuffle(profits, rng)
       IN  /\ rng' = sh.state
           /\ shuffled_log' = Append(shuffled_log, sh.list)
           /\ mc_trades' = TradesAfterShuffle(mc_trades, sh.list)
           /\ results' = Append(results,
                                CalculateEquityStats(sh.list, mc_initial_balance,
                                                     ruin_threshold_pct))
    /\ UNCHANGED <<mc_initial_balance, iterations,
                   ruin_threshold_pct, mc_pc, profits, original_profit,
                   original_stats, mc_result, is_robust, run_seed, runs,
                   first_seeded>>
    /\ UNCHANGED NotMC

\* After the loop: the statistics and the returned MonteCarloResult
\* (lines 141-173). With no iteration len(final_equities) is 0 and
\* sum(final_equities) / len(final_equities) raises ZeroDivisionError.
Finish ==
    /\ mc_pc = "running"
    /\ Len(results) = iterations
    /\ IF iterations = 0
       THEN /\ mc_pc' = "raised"
            /\ UNCHANGED <<mc_result, first_seeded>>
       ELSE /\ mc_pc' = "done"
            /\ mc_result' = <<BuildResult>>
            /\ first_seeded' = Remember(BuildResult)
    /\ UNCHANGED <<mc_trades, mc_initial_balance, iterations,
                   ruin_threshold_pct, rng, profits, original_profit,
                   original_stats, results, shuffled_log, is_robust, run_seed,
                   runs>>
    /\ UNCHANGED NotMC

FracGe(x, n) == x.num >= n * x.den
FracGt(x, n) == x.num > n * x.den
FracLe(x, n) == x.num <= n * x.den

\* MonteCarloResult.is_robust (lines 69-75)
IsRobustExclusive(res) ==
    /\ FracGt(res.confidence_level, RobustConfidenceMin)
    /\ FracLe(res.probability_of_ruin, RobustRuinMax)

IsRobust(res) ==
    /\ FracGe(res.confidence_level, RobustConfidenceMin)
    /\ FracLe(res.probability_of_ruin, RobustRuinMax)

\* A caller reads result.is_robust
ReadIsRobust ==
    /\ mc_pc = "done"
    /\ is_robust = <<>>
    /\ is_robust' = <<IsRobust(mc_result[1])>>
    /\ UNCHANGED <<mc_trades, mc_initial_balance, iterations,
                   ruin_threshold_pct, rng, mc_pc, profits, original_profit,
                   original_stats, results, shuffled_log, mc_result, run_seed,
                   runs, first_seeded>>
    /\ UNCHANGED NotMC

\* No simulator (the other components' specifications)
MCIdle ==
    /\ mc_trades = <<>>
    /\ mc_initial_balance = 0
    /\ iterations = 0
    /\ ruin_threshold_pct = 0
    /\ rng = 1
    /\ mc_pc = "idle"
    /\ profits = <<>>
    /\ original_profit = 0
    /\ original_stats = <<>>
    /\ results = <<>>
    /\ shuffled_log = <<>>
    /\ mc_result = <<>>
    /\ is_robust = <<>>
    /\ run_seed = <<>>
    /\ runs = 0
    /\ first_seeded = [sd \in Seeds |-> <<>>]

RECURSIVE SeqsUpTo(_, _)
SeqsUpTo(S, n) ==
    IF n = 0 THEN {<<>>}
    ELSE LET shorter == SeqsUpTo(S, n - 1)
         IN  shorter \cup {Append(q, x) : q \in shorter, x \in S}

TradeLists ==
    {[i \in 1..Len(q) |-> [net_profit |-> q[i]]] : q \in SeqsUpTo(TradeProfits, MaxTrades)}

\* A simulator just constructed, seeded or not, and the arguments of run
InitMC ==
    /\ mc_trades \in TradeLists
    /\ mc_initial_balance \in InitialBalances
    /\ iterations \in 0..MaxIter
    /\ ruin_threshold_pct \in RuinThresholdPcts
    /\ \E so \in SeedOpts, before \in RngStates :
          /\ rng = SeedRng(so, before)
          /\ run_seed = so
    /\ mc_pc = "ready"
    /\ profits = <<>>
    /\ original_profit = 0
    /\ original_stats = <<>>
    /\ results = <<>>
    /\ shuffled_log = <<>>
    /\ mc_result = <<>>
    /\ is_robust = <<>>
    /\ runs = 0
    /\ first_seeded = [sd \in Seeds |-> <<>>]

\* Any MonteCarloResult, by its two percentages in half percents
HalfPercents == {Frac(n, 2) : n \in 0..200}

InitVerdict ==
    /\ mc_trades = <<>>
    /\ mc_initial_balance = 0
    /\ iterations = 0
    /\ ruin_threshold_pct = 0
    /\ rng = 1
    /\ mc_pc = "done"
    /\ profits = <<>>
    /\ original_profit = 0
    /\ original_stats = <<>>
    /\ results = <<>>
    /\ shuffled_log = <<>>
    /\ \E c \in HalfPercents, r \in HalfPercents :
          mc_result = <<[EmptyResult(0, 0) EXCEPT !.confidence_level = c,
                                                  !.probability_of_ruin = r]>>
    /\ is_robust = <<>>
    /\ run_seed = <<>>
    /\ runs = 0
    /\ first_seeded = [sd \in Seeds |-> <<>>]

(***************************************************************************)
(* Walk-Forward Fold Scheduler: calendar arithmetic and fold windows       *)
(* (src/tester/walk_forward.py)                                            *)
(***************************************************************************)
\* A date is [year, month, day]; a "%Y.%m.%d" string is the number its
\* digits spell (2024.01.31 is 20240131), so the order of the zero-padded
\* strings is the order of the numbers.
MaxFolds == 3

Date(y, m, d) == [year |-> y, month |-> m, day |-> d]

\* calendar.isleap, as calendar.monthrange uses it (line 37)
IsLeap(y) == (y % 4 = 0 /\ y % 100 # 0) \/ y % 400 = 0

\* calendar.monthrange(year, month)[1] (line 37)
MonthRange(y, m) ==
    IF m = 2 THEN (IF IsLeap(y) THEN 29 ELSE 28)
    ELSE IF m \in {4, 6, 9, 11} THEN 30 ELSE 31

\* _parse_ymd (lines 25-26) and _fmt_ymd (lines 29-30)
ParseYmd(s) == Date(s \div 10000, (s \div 100) % 100, s % 100)

FmtYmd(d) == d.year * 10000 + d.month * 100 + d.day

\* date.__lt__ and date.__le__ (lines 178, 184, 188, 191)
DateLt(a, b) ==
    \/ a.year < b.year
    \/ a.year = b.year /\ a.month < b.month
    \/ a.year = b.year /\ a.month = b.month /\ a.day < b.day

DateLe(a, b) == a = b \/ DateLt(a, b)

\* _add_months (lines 33-38); // and % round toward minus infinity
AddMonthsUnclamped(d, months) ==
    LET month0 == (d.month - 1) + months
    IN  Date(d.year + (month0 \div 12), (month0 % 12) + 1, d.day)

AddMonths(d, months) ==
    LET month0 == (d.month - 1) + months
        year == d.year + (month0 \div 12)
        month == (month0 % 12) + 1
        last == MonthRange(year, month)
    IN  Date(year, month, IF d.day < last THEN d.day ELSE last)

\* oos_end = _add_months(oos_start, self.fold_months) (line 187)
OosEndOneShort(oos_start, fold_months) == AddMonths(oos_start, fold_months - 1)

OosEnd(oos_start, fold_months) == AddMonths(oos_start, fold_months)

\* if oos_end > end: oos_end = end (lines 188-189)
NoClamp(oos_end, end) == oos_end

ClampToEnd(oos_end, end) == IF DateLt(end, oos_end) THEN end ELSE oos_end

\* The while loop of _fold_windows (lines 184-195)
\* if is_end <= is_start or oos_end <= oos_start: break (lines 191-192)
EmptyOosWindow(is_start, is_end, oos_start, oos_end) ==
    DateLe(oos_end, oos_start)

EmptyWindow(is_start, is_end, oos_start, oos_end) ==
    DateLe(is_end, is_start) \/ DateLe(oos_end, oos_start)

RECURSIVE FoldLoop(_, _, _, _, _)
FoldLoop(folds, oos_start, start, end, self) ==
    IF ~(DateLt(oos_start, end) /\ Len(folds) < self.max_folds) THEN folds
    ELSE LET is_start == start
             is_end == oos_start
             oos_end == ClampToEnd(OosEnd(oos_start, self.fold_months), end)
         IN  IF EmptyWindow(is_start, is_end, oos_start, oos_end) THEN folds
             ELSE FoldLoop(Append(folds, <<FmtYmd(is_start), FmtYmd(is_end),
                                           FmtYmd(oos_start), FmtYmd(oos_end)>>),
                           AddMonths(oos_start, self.step_months),
                           start, end, self)

\* WalkForwardTester._fold_windows (lines 175-197)
FoldWindows(self, from_date, to_date) ==
    LET start == ParseYmd(from_date)
        end == ParseYmd(to_date)
    IN  IF DateLe(end, start) THEN <<>>
        ELSE FoldLoop(<<>>, AddMonths(start, self.min_is_months), start, end, self)

\* WalkForwardTester.__init__ (lines 118-125)
Tester(fold_months, step_months, min_is_months, include_is, max_folds, inputs) ==
    [fold_months |-> fold_months, step_months |-> step_months,
     min_is_months |-> min_is_months, include_is |-> include_is,
     max_folds |-> max_folds, inputs |-> inputs]

\* A direct call of _fold_windows on a constructed tester
FoldWindowsCall ==
    /\ wf_pc = "ready"
    /\ wf_folds' = FoldWindows(wf_self[1], wf_args[1].from_date, wf_args[1].to_date)
    /\ wf_pc' = "windows"
    /\ UNCHANGED <<wf_self, wf_args, wf_is_res, wf_out, engine_requests,
                   wf_result, wf_summary>>
    /\ UNCHANGED wf_oos_start
    /\ UNCHANGED NotWF

\* while oos_start < end and len(folds) < self.max_folds (line 184)
LoopContinuesUnbounded(folds, oos_start, end, self) == DateLt(oos_start, end)

LoopContinues(folds, oos_start, end, self) ==
    DateLt(oos_start, end) /\ Len(folds) < self.max_folds

\* _fold_windows up to its loop (lines 176-182)
FoldWindowsEnter ==
    /\ wf_pc = "ready"
    /\ LET start == ParseYmd(wf_args[1].from_date)
           end == ParseYmd(wf_args[1].to_date)
       IN  IF DateLe(end, start)
           THEN /\ wf_pc' = "windows"
                /\ wf_oos_start' = <<>>
           ELSE /\ wf_pc' = "loop"
                /\ wf_oos_start' = <<AddMonths(start, wf_self[1].min_is_months)>>
    /\ wf_folds' = <<>>
    /\ UNCHANGED <<wf_self, wf_args, wf_is_res, wf_out, engine_requests,
                   wf_result, wf_summary>>
    /\ UNCHANGED NotWF

\* One test of the while condition and, if it holds, one pass through the
\* loop body (lines 184-195); return folds (line 197) when the loop ends
FoldLoopIterate ==
    /\ wf_pc = "loop"
    /\ LET start == ParseYmd(wf_args[1].from_date)
           end == ParseYmd(wf_args[1].to_date)
           self == wf_self[1]
           oos_start == wf_oos_start[1]
           is_start == start
           is_end == oos_start
           oos_end == ClampToEnd(OosEnd(oos_start, self.fold_months), end)
       IN  IF ~LoopContinues(wf_folds, oos_start, end, self)
              \/ EmptyWindow(is_start, is_end, oos_start, oos_end)
           THEN /\ wf_pc' = "windows"
                /\ wf_oos_start' = <<>>
                /\ UNCHANGED wf_folds
           ELSE /\ wf_folds' = Append(wf_folds,
                                      <<FmtYmd(is_start), FmtYmd(is_end),
                                        FmtYmd(oos_start), FmtYmd(oos_end)>>)
                /\ wf_oos_start' = <<AddMonths(oos_start, self.step_months)>>
                /\ UNCHANGED wf_pc
    /\ UNCHANGED <<wf_self, wf_args, wf_is_res, wf_out, engine_requests,
                   wf_result, wf_summary>>
    /\ UNCHANGED NotWF

\* No tester (the other components' specifications)
WFIdle ==
    /\ wf_self = <<>>
    /\ wf_args = <<>>
    /\ wf_folds = <<>>
    /\ wf_pc = "idle"
    /\ wf_is_res = <<>>
    /\ wf_out = <<>>
    /\ engine_requests = <<>>
    /\ wf_result = <<>>
    /\ wf_summary = <<>>
    /\ wf_oos_start = <<>>

\* The EA parameter sets a tester is constructed with (inputs, line 125)
ParamSets == {[Period |-> 14], [Period |-> 21]}

\* Range starts and ends, month ends and a leap day among them
FromDates == {20230131, 20231115, 20240229}
ToDates == {20230820, 20240331, 20250101}
MonthCounts == {-1, 0, 1, 3, 12}

\* A tester of any fold shape and the arguments of _fold_windows
InitFolds ==
    /\ \E fm \in MonthCounts, sm \in MonthCounts, mi \in MonthCounts,
          mf \in 0..MaxFolds :
          wf_self = <<Tester(fm, sm, mi, TRUE, mf, [Period |-> 14])>>
    /\ \E f \in FromDates, t \in ToDates :
          wf_args = <<[from_date |-> f, to_date |-> t]>>
    /\ wf_folds = <<>>
    /\ wf_pc = "ready"
    /\ wf_is_res = <<>>
    /\ wf_out = <<>>
    /\ engine_requests = <<>>
    /\ wf_result = <<>>
    /\ wf_summary = <<>>
    /\ wf_oos_start = <<>>

(***************************************************************************)
(* Walk-Forward Fold Scheduler: test() and the cross-fold summary          *)
(* (src/tester/walk_forward.py, src/scripts/run_walk_forward.py)           *)
(***************************************************************************)
\* What BacktestRunner.run and the report parsers can answer for one window:
\* the run failed with an error text (<<>> is an empty text), the report
\* could not be parsed, or metrics (profit_factor in hundredths, roi_pct).
FailedRun(err) == [kind |-> "failed", error |-> err, metrics |-> <<>>]
UnparsedReport == [kind |-> "unparsed", error |-> <<>>, metrics |-> <<>>]
ParsedReport(pf, roi) ==
    [kind |-> "parsed", error |-> <<>>,
     metrics |-> <<[profit_factor |-> pf, roi_pct |-> roi]>>]

IsOutcomes == {FailedRun(<<"Backtest timed out">>), ParsedReport(120, 8)}
OosOutcomes == {FailedRun(<<>>), UnparsedReport,
                ParsedReport(80, -5), ParsedReport(200, 20)}

\* The keyword arguments _run_period hands to self._runner.run (lines 141-149)
EngineRequestDefaultInputs(self, from_date, to_date, run_dir) ==
    [from_date |-> from_date, to_date |-> to_date, run_dir |-> run_dir,
     inputs |-> [Period |-> 0]]

EngineRequest(self, from_date, to_date, run_dir) ==
    [from_date |-> from_date, to_date |-> to_date, run_dir |-> run_dir,
     inputs |-> self.inputs]

\* The PeriodResult _run_period builds from the runner's answer (lines
\* 151-173), without its report path, durations and commission/swap totals
PeriodResultAlwaysOk(answer, from_date, to_date) ==
    [success |-> TRUE, from_date |-> from_date, to_date |-> to_date,
     metrics |-> answer.metrics, error |-> <<>>]

PeriodResult(answer, from_date, to_date) ==
    IF answer.kind = "failed"
    THEN [success |-> FALSE, from_date |-> from_date, to_date |-> to_date,
          metrics |-> <<>>,
          error |-> IF answer.error # <<>> THEN answer.error
                    ELSE <<"Backtest failed">>]
    ELSE [success |-> answer.metrics # <<>>,
          from_date |-> from_date, to_date |-> to_date,
          metrics |-> answer.metrics,
          error |-> IF answer.metrics # <<>> THEN <<>>
                    ELSE <<"Failed to parse report">>]

\* Where the for loop of test goes next (lines 215-220)
LoopPcAbortOnFailure(self, folds, out) ==
    IF out # <<>> /\ ~Last(out).oos_result.success THEN "loopdone"
    ELSE IF Len(out) >= Len(folds) THEN "loopdone"
    ELSE IF self.include_is THEN "is" ELSE "oos"

LoopPc(self, folds, out) ==
    IF Len(out) >= Len(folds) THEN "loopdone"
    ELSE IF self.include_is THEN "is" ELSE "oos"

\* test, up to the for loop (lines 208-213)
TestBegin ==
    /\ wf_pc = "ready"
    /\ wf_folds' = FoldWindows(wf_self[1], wf_args[1].from_date, wf_args[1].to_date)
    /\ wf_out' = <<>>
    /\ wf_pc' = LoopPc(wf_self[1], wf_folds', wf_out')
    /\ UNCHANGED <<wf_self, wf_args, wf_is_res, engine_requests, wf_result,
                   wf_summary>>
    /\ UNCHANGED wf_oos_start
    /\ UNCHANGED NotWF

\* The in-sample _run_period of the current fold (lines 219-228)
RunIS ==
    /\ wf_pc = "is"
    /\ \E answer \in IsOutcomes :
          LET idx == Len(wf_out) + 1
              w == wf_folds[idx]
          IN  /\ engine_requests' =
                     Append(engine_requests,
                            [request |-> EngineRequest(wf_self[1], w[1], w[2],
                                                       <<idx, "IS">>),
                             answer |-> answer])
              /\ wf_is_res' = <<PeriodResult(answer, w[1], w[2])>>
    /\ wf_pc' = "oos"
    /\ UNCHANGED <<wf_self, wf_args, wf_folds, wf_out, wf_result, wf_summary>>
    /\ UNCHANGED wf_oos_start
    /\ UNCHANGED NotWF

\* The out-of-sample _run_period and out.append (lines 230-239); is_res is
\* None again when the next iteration begins (line 219)
RunOOS ==
    /\ wf_pc = "oos"
    /\ \E answer \in OosOutcomes :
          LET idx == Len(wf_out) + 1
              w == wf_folds[idx]
          IN  /\ engine_requests' =
                     Append(engine_requests,
                            [request |-> EngineRequest(wf_self[1], w[3], w[4],
                                                       <<idx, "OOS">>),
                             answer |-> answer])
              /\ wf_out' = Append(wf_out,
                                  [fold_index |-> idx,
                                   is_result |-> wf_is_res,
                                   oos_result |-> PeriodResult(answer, w[3], w[4])])
    /\ wf_is_res' = <<>>
    /\ wf_pc' = LoopPc(wf_self[1], wf_folds, wf_out')
    /\ UNCHANGED <<wf_self, wf_args, wf_folds, wf_result, wf_summary>>
    /\ UNCHANGED wf_oos_start
    /\ UNCHANGED NotWF

\* return WalkForwardResult(...) (lines 241-253)
TestReturn ==
    /\ wf_pc = "loopdone"
    /\ wf_result' = <<[from_date |-> wf_args[1].from_date,
                       to_date |-> wf_args[1].to_date,
                       fold_months |-> wf_self[1].fold_months,
                       step_months |-> wf_self[1].step_months,
                       min_is_months |-> wf_self[1].min_is_months,
                       include_is |-> wf_self[1].include_is,
                       folds |-> wf_out]>>
    /\ wf_pc' = "returned"
    /\ UNCHANGED <<wf_self, wf_args, wf_folds, wf_is_res, wf_out,
                   engine_requests, wf_summary>>
    /\ UNCHANGED wf_oos_start
    /\ UNCHANGED NotWF

\* _median (lines 422-431): None (<<>>) of no values, else the middle value
\* or the mean of the two middle values, as an exact fraction
Median(xs) ==
    IF xs = <<>> THEN <<>>
    ELSE LET xs2 == Sorted(xs)
             n == Len(xs2)
             mid == n \div 2
         IN  IF n % 2 = 1 THEN <<Frac(xs2[mid + 1], 1)>>
             ELSE <<Frac(xs2[mid] + xs2[mid + 1], 2)>>

\* min(xs) if xs else None (lines 569, 571)
Worst(xs) == IF xs = <<>> THEN <<>> ELSE <<Sorted(xs)[1]>>

\* settings.thresholds.min_profit_factor and the soft gate 1.3, in hundredths
MinProfitFactor == 150
SoftProfitFactor == 130

\* om.get("profit_factor") or 0.0 with om = oos.get("metrics") or {}
\* (lines 551-554)
MetricOrZero(period, name) ==
    IF period.metrics = <<>> THEN 0 ELSE period.metrics[1][name]

\* Only the folds whose out-of-sample run succeeded feed the lists
MetricsOfSuccessful(folds, name) ==
    LET good == SelectSeq(folds, LAMBDA f : f.oos_result.success)
    IN  [i \in 1..Len(good) |-> good[i].oos_result.metrics[1][name]]

\* The lists oos_pfs and oos_rois main builds in its loop (lines 536-556)
MetricsOfAll(folds, name) ==
    [i \in 1..Len(folds) |-> MetricOrZero(folds[i].oos_result, name)]

\* main, from the loop over res.folds to the summary dict (lines 531-572)
Summarize ==
    /\ wf_pc = "returned"
    /\ LET folds == wf_result[1].folds
           oos_pfs == MetricsOfAll(folds, "profit_factor")
           oos_rois == MetricsOfAll(folds, "roi_pct")
           gates == [i \in 1..Len(folds) |->
                        [oos_pf_ge_1_3 |-> oos_pfs[i] >= SoftProfitFactor,
                         oos_pf_ge_1_5 |-> oos_pfs[i] >= MinProfitFactor]]
       IN  wf_summary' =
               <<[folds_total |-> Len(folds),
                  oos_pass_pf_15 |->
                      Len(SelectSeq(gates, LAMBDA g : g.oos_pf_ge_1_5)),
                  oos_pf_median |-> Median(oos_pfs),
                  oos_pf_worst |-> Worst(oos_pfs),
                  oos_roi_median |-> Median(oos_rois),
                  oos_roi_worst |-> Worst(oos_rois),
                  gates |-> gates]>>
    /\ wf_pc' = "summarized"
    /\ UNCHANGED <<wf_self, wf_args, wf_folds, wf_is_res, wf_out,
                   engine_requests, wf_result>>
    /\ UNCHANGED wf_oos_start
    /\ UNCHANGED NotWF

\* The fold shapes of the runs, in-sample runs included or not
RunShapes ==
    {Tester(3, 3, 3, inc, mf, ps) :
        inc \in BOOLEAN, mf \in 1..MaxFolds, ps \in ParamSets}
    \cup {Tester(1, 2, 12, TRUE, mf, [Period |-> 21]) : mf \in 1..MaxFolds}

\* A tester just constructed and the arguments of test
InitTest ==
    /\ \E self \in RunShapes : wf_self = <<self>>
    /\ \E t \in {20231115, 20250101} :
          wf_args = <<[from_date |-> 20230131, to_date |-> t]>>
    /\ wf_folds = <<>>
    /\ wf_pc = "ready"
    /\ wf_is_res = <<>>
    /\ wf_out = <<>>
    /\ engine_requests = <<>>
    /\ wf_result = <<>>
    /\ wf_summary = <<>>
    /\ wf_oos_start = <<>>

(***************************************************************************)
(* Calls of the pure functions _add_months and _percentile                 *)
(***************************************************************************)
FnIdle ==
    /\ am_args = <<>>
    /\ am_ret = <<>>
    /\ pct_args = <<>>
    /\ pct_ret = <<>>

Years == {2023, 2024}
MonthOffsets == -14..14

ValidDates ==
    {Date(y, m, d) : y \in Years, m \in 1..12, d \in 1..31} \
        {dt \in {Date(y, m, d) : y \in Years, m \in 1..12, d \in 29..31} :
            dt.day > MonthRange(dt.year, dt.month)}

AddMonthsCall ==
    /\ am_args # <<>>
    /\ am_ret = <<>>
    /\ am_ret' = <<AddMonths(am_args[1].d, am_args[1].months)>>
    /\ UNCHANGED <<am_args, pct_args, pct_ret>>
    /\ UNCHANGED NotFn

InitAddMonths ==
    /\ \E d \in ValidDates, m \in MonthOffsets : am_args = <<[d |-> d, months |-> m]>>
    /\ am_ret = <<>>
    /\ pct_args = <<>>
    /\ pct_ret = <<>>

MaxPctLen == 3
PctValues == {-7, 0, 3, 12}
PctPoints == {0, 5, 25, 50, 75, 95, 100}

\* _percentile of generate_dashboard.py (lines 40-52), on a list its caller
\* has sorted; the value in hundredths
DashboardPercentile(sorted_vals, p) ==
    IF sorted_vals = <<>> THEN Whole(0)
    ELSE IF p <= 0 THEN Frac(sorted_vals[1] * 100, 100)
    ELSE IF p >= 100 THEN Frac(Last(sorted_vals) * 100, 100)
    ELSE LET k100 == (Len(sorted_vals) - 1) * p
             f == k100 \div 100
             c == IF k100 % 100 = 0 THEN f ELSE f + 1
         IN  IF f = c THEN Frac(sorted_vals[f + 1] * 100, 100)
             ELSE Frac(sorted_vals[f + 1] * (c * 100 - k100)
                           + sorted_vals[c + 1] * (k100 - f * 100), 100)

\* Both percentile functions at p1 and at p2: the simulator's sorts the
\* list itself, the dashboard's is handed sorted(...) by its caller
\* (generate_dashboard.py line 1289)
PercentileCall ==
    /\ pct_args # <<>>
    /\ pct_ret = <<>>
    /\ LET data == pct_args[1].data
       IN  pct_ret' = <<[mc1 |-> Percentile(data, pct_args[1].p1),
                         mc2 |-> Percentile(data, pct_args[1].p2),
                         dash1 |-> DashboardPercentile(Sorted(data), pct_args[1].p1),
                         dash2 |-> DashboardPercentile(Sorted(data), pct_args[1].p2)]>>
    /\ UNCHANGED <<am_args, am_ret, pct_args>>
    /\ UNCHANGED NotFn

InitPercentile ==
    /\ \E data \in SeqsUpTo(PctValues, MaxPctLen), p1 \in PctPoints, p2 \in PctPoints :
          /\ p1 <= p2
          /\ pct_args = <<[data |-> data, p1 |-> p1, p2 |-> p2]>>
    /\ pct_ret = <<>>
    /\ am_args = <<>>
    /\ am_ret = <<>>

(***************************************************************************)
(* Workflow State Manager (src/workflow/state_manager.py)                  *)
(***************************************************************************)
WSIdle ==
    /\ ws_steps = <<>>
    /\ ws_current_step = ""
    /\ ws_ret = <<>>
    /\ ws_passed_ever = {}

\* Calls beyond a straight run: steps marked failed plus repeated starts
MaxRework == 1

\* WORKFLOW_STEPS (lines 26-39), OPTIONAL_STEPS (line 42)
WORKFLOW_STEPS ==
    <<"1_load", "2_compile", "2b_fix_errors", "3_extract_params",
      "4_create_wide_ini", "5_validate_trades", "6_create_opt_ini",
      "7_run_optimization", "8_parse_results", "9_backtest_robust",
      "10_monte_carlo", "11_report">>

OPTIONAL_STEPS == {"2b_fix_errors"}

StepNames == {WORKFLOW_STEPS[i] : i \in 1..Len(WORKFLOW_STEPS)}

\* A name that is no step, and the names a caller passes
UnknownStep == "0_unknown"
CallNames == StepNames \cup {UnknownStep}

\* STEP_DEPENDENCIES (lines 45-57), with .get(step_name, []) for 1_load
STEP_DEPENDENCIES ==
    [s \in StepNames |->
        CASE s = "2_compile" -> <<"1_load">>
          [] s = "2b_fix_errors" -> <<"2_compile">>
          [] s = "3_extract_params" -> <<"1_load">>
          [] s = "4_create_wide_ini" -> <<"3_extract_params">>
          [] s = "5_validate_trades" -> <<"2_compile", "4_create_wide_ini">>
          [] s = "6_create_opt_ini" -> <<"5_validate_trades">>
          [] s = "7_run_optimization" -> <<"6_create_opt_ini">>
          [] s = "8_parse_results" -> <<"7_run_optimization">>
          [] s = "9_backtest_robust" -> <<"8_parse_results">>
          [] s = "10_monte_carlo" -> <<"9_backtest_robust">>
          [] s = "11_report" -> <<"10_monte_carlo">>
          [] OTHER -> <<>>]

\* StepState() (lines 60-68); started_at and completed_at by whether set
StepState ==
    [status |-> "pending", started_at |-> FALSE, completed_at |-> FALSE,
     error |-> <<>>, attempts |-> 0]

IndexOf(step_name) ==
    CHOOSE i \in 1..Len(WORKFLOW_STEPS) : WORKFLOW_STEPS[i] = step_name

\* The loop over the dependencies in can_start_step (lines 170-182): TRUE
\* when no dependency blocks
RECURSIVE DepsAllow(_, _, _)
DepsAllow(steps, step_name, deps) ==
    IF deps = <<>> THEN TRUE
    ELSE LET dep == Head(deps)
             dep_status == steps[dep].status
         IN  IF dep = "2_compile" /\ step_name = "2b_fix_errors"
             THEN dep_status = "failed" /\ DepsAllow(steps, step_name, Tail(deps))
             ELSE IF dep \in OPTIONAL_STEPS
             THEN DepsAllow(steps, step_name, Tail(deps))
             ELSE dep_status = "passed" /\ DepsAllow(steps, step_name, Tail(deps))

\* can_start_step (lines 156-189), its first component
CanStartStepNoDeps(steps, step_name) ==
    /\ step_name \in StepNames
    /\ steps[step_name].status # "passed"

CanStartStep(steps, step_name) ==
    /\ step_name \in StepNames
    /\ DepsAllow(steps, step_name, STEP_DEPENDENCIES[step_name])
    /\ steps[step_name].status # "passed"

\* The steps fail_step has marked so far (error is never cleared)
FailedSteps(steps) == {s \in StepNames : steps[s].error # <<>>}

RECURSIVE RepeatedStarts(_, _)
RepeatedStarts(steps, names) ==
    IF names = {} THEN 0
    ELSE LET s == CHOOSE x \in names : TRUE
         IN  (IF steps[s].attempts > 1 THEN steps[s].attempts - 1 ELSE 0)
                 + RepeatedStarts(steps, names \ {s})

Rework(steps) == Cardinality(FailedSteps(steps)) + RepeatedStarts(steps, StepNames)

\* return success, message
Returned(success) == <<success>>

\* start_step (lines 191-210)
StartStep(step_name) ==
    IF ~CanStartStep(ws_steps, step_name)
    THEN /\ ws_ret' = Returned(FALSE)
         /\ UNCHANGED <<ws_steps, ws_current_step, ws_passed_ever>>
         /\ UNCHANGED NotWS
    ELSE /\ ws_steps[step_name].attempts = 0 \/ Rework(ws_steps) < MaxRework
         /\ ws_steps' = [ws_steps EXCEPT ![step_name].status = "in_progress",
                                         ![step_name].started_at = TRUE,
                                         ![step_name].attempts = @ + 1]
         /\ ws_current_step' = step_name
         /\ ws_ret' = Returned(TRUE)
         /\ UNCHANGED ws_passed_ever
         /\ UNCHANGED NotWS

\* The step complete_step makes current (lines 237-244)
NextCurrent(steps, step_name, current) ==
    LET current_idx == IndexOf(step_name)
    IN  IF current_idx < Len(WORKFLOW_STEPS)
        THEN IF WORKFLOW_STEPS[current_idx + 1] = "2b_fix_errors"
                  /\ steps["2_compile"].status = "passed"
             THEN WORKFLOW_STEPS[current_idx + 2]
             ELSE WORKFLOW_STEPS[current_idx + 1]
        ELSE current

\* complete_step (lines 212-247)
CompleteStep(step_name) ==
    IF step_name \notin StepNames \/ ws_steps[step_name].status # "in_progress"
    THEN /\ ws_ret' = Returned(FALSE)
         /\ UNCHANGED <<ws_steps, ws_current_step, ws_passed_ever>>
         /\ UNCHANGED NotWS
    ELSE /\ ws_steps' = [ws_steps EXCEPT ![step_name].status = "passed",
                                         ![step_name].completed_at = TRUE]
         /\ ws_current_step' = NextCurrent(ws_steps', step_name, ws_current_step)
         /\ ws_passed_ever' = ws_passed_ever \cup {step_name}
         /\ ws_ret' = Returned(TRUE)
         /\ UNCHANGED NotWS

\* fail_step (lines 249-270)
FailStep(step_name) ==
    IF step_name \notin StepNames
    THEN /\ ws_ret' = Returned(FALSE)
         /\ UNCHANGED <<ws_steps, ws_current_step, ws_passed_ever>>
         /\ UNCHANGED NotWS
    ELSE /\ step_name \in FailedSteps(ws_steps) \/ Rework(ws_steps) < MaxRework
         /\ ws_steps' = [ws_steps EXCEPT ![step_name].status = "failed",
                                         ![step_name].completed_at = TRUE,
                                         ![step_name].error = <<"error">>]
         /\ ws_ret' = Returned(TRUE)
         /\ UNCHANGED <<ws_current_step, ws_passed_ever>>
         /\ UNCHANGED NotWS

StartStepCall == \E step_name \in CallNames : StartStep(step_name)

CompleteStepCall == \E step_name \in CallNames : CompleteStep(step_name)

FailStepCall == \E step_name \in CallNames : FailStep(step_name)

\* create_workflow (lines 110-123): every step PENDING, current_step 1_load
InitWorkflow ==
    /\ ws_steps = [s \in StepNames |-> StepState]
    /\ ws_current_step = "1_load"
    /\ ws_ret = <<>>
    /\ ws_passed_ever = {}

(***************************************************************************)
(* Post-step modules (workflow/post_steps.py) started by the web app       *)
(***************************************************************************)
\* The module scripts _spawn_job starts as separate processes on one state
\* file (web_app.py lines 392-413); nothing stops a second one from being
\* started while the first runs
Modules == {"execution_stress", "walk_forward"}

\* PostStepRun (lines 27-40) without its timestamps and output
PostStepRun(id, name, status) ==
    [id |-> id, name |-> name, status |-> status, error |-> <<>>]

\* The run ids of two processes differ (_new_run_id is a timestamp in
\* milliseconds); a process's run id is written as its module name
NewRunId(p) == p

\* _find_run (lines 78-83): the index of the first run with that id, 0 for
\* (None, None)
FindRun(data, run_id) ==
    IF \E i \in 1..Len(data) : data[i].id = run_id
    THEN CHOOSE i \in 1..Len(data) :
             /\ data[i].id = run_id
             /\ \A j \in 1..(i - 1) : data[j].id # run_id
    ELSE 0

\* start_post_step up to data = load_state(state_path) (lines 59-63)
StartPostStepLoad(p) ==
    /\ ps_pc[p] = "idle"
    /\ ps_run_id' = [ps_run_id EXCEPT ![p] = <<NewRunId(p)>>]
    /\ ps_data' = [ps_data EXCEPT ![p] = <<ps_file>>]
    /\ ps_pc' = [ps_pc EXCEPT ![p] = "start_loaded"]
    /\ UNCHANGED <<ps_file, ps_final>>
    /\ UNCHANGED NotPS

\* start_post_step from the append to save_state and the return (lines 64-75)
StartPostStepSave(p) ==
    /\ ps_pc[p] = "start_loaded"
    /\ ps_file' = Append(ps_data[p][1],
                         PostStepRun(ps_run_id[p][1], p, "in_progress"))
    /\ ps_data' = [ps_data EXCEPT ![p] = <<>>]
    /\ ps_pc' = [ps_pc EXCEPT ![p] = "running"]
    /\ UNCHANGED <<ps_run_id, ps_final>>
    /\ UNCHANGED NotPS

\* The file a finishing call saves, from _find_run to save_state (lines
\* 92-107, 122-137): the loaded list with the run's status and error set,
\* or the file as it is when the run is not in the loaded list (early
\* return)
Finished(file, data, run_id, status, error) ==
    LET idx == FindRun(data, run_id)
    IN  IF idx = 0 THEN file
        ELSE [data EXCEPT ![idx].status = status, ![idx].error = error]

\* complete_post_step up to data = load_state(state_path) (lines 86-91)
CompletePostStepLoad(p) ==
    /\ ps_pc[p] = "running"
    /\ ps_data' = [ps_data EXCEPT ![p] = <<ps_file>>]
    /\ ps_final' = [ps_final EXCEPT ![p] = <<"passed">>]
    /\ ps_pc' = [ps_pc EXCEPT ![p] = "complete_loaded"]
    /\ UNCHANGED <<ps_file, ps_run_id>>
    /\ UNCHANGED NotPS

\* complete_post_step from _find_run to save_state (lines 92-107)
CompletePostStepSave(p) ==
    /\ ps_pc[p] = "complete_loaded"
    /\ ps_file' = Finished(ps_file, ps_data[p][1], ps_run_id[p][1],
                           "passed", <<>>)
    /\ ps_data' = [ps_data EXCEPT ![p] = <<>>]
    /\ ps_pc' = [ps_pc EXCEPT ![p] = "done"]
    /\ UNCHANGED <<ps_run_id, ps_final>>
    /\ UNCHANGED NotPS

\* fail_post_step up to data = load_state(state_path) (lines 110-121)
FailPostStepLoad(p) ==
    /\ ps_pc[p] = "running"
    /\ ps_data' = [ps_data EXCEPT ![p] = <<ps_file>>]
    /\ ps_final' = [ps_final EXCEPT ![p] = <<"failed">>]
    /\ ps_pc' = [ps_pc EXCEPT ![p] = "fail_loaded"]
    /\ UNCHANGED <<ps_file, ps_run_id>>
    /\ UNCHANGED NotPS

\* fail_post_step from _find_run to save_state (lines 122-137)
FailPostStepSave(p) ==
    /\ ps_pc[p] = "fail_loaded"
    /\ ps_file' = Finished(ps_file, ps_data[p][1], ps_run_id[p][1],
                           "failed", <<"error">>)
    /\ ps_data' = [ps_data EXCEPT ![p] = <<>>]
    /\ ps_pc' = [ps_pc EXCEPT ![p] = "done"]
    /\ UNCHANGED <<ps_run_id, ps_final>>
    /\ UNCHANGED NotPS

StartLoads == \E p \in Modules : StartPostStepLoad(p)
StartSaves == \E p \in Modules : StartPostStepSave(p)
CompleteLoads == \E p \in Modules : CompletePostStepLoad(p)
CompleteSaves == \E p \in Modules : CompletePostStepSave(p)
FailLoads == \E p \in Modules : FailPostStepLoad(p)
FailSaves == \E p \in Modules : FailPostStepSave(p)

\* No module process (the other components' specifications)
PSIdle ==
    /\ ps_file = <<>>
    /\ ps_pc = <<>>
    /\ ps_data = <<>>
    /\ ps_run_id = <<>>
    /\ ps_final = <<>>

\* A state file of a finished workflow, with or without the record of an
\* earlier post-step run, and two module processes just spawned on it
EarlierRuns == {<<>>, <<PostStepRun("earlier", "multipair", "passed")>>,
                <<PostStepRun("earlier", "multipair", "failed")>>}

InitPostSteps ==
    /\ ps_file \in EarlierRuns
    /\ ps_pc = [p \in Modules |-> "idle"]
    /\ ps_data = [p \in Modules |-> <<>>]
    /\ ps_run_id = [p \in Modules |-> <<>>]
    /\ ps_final = [p \in Modules |-> <<>>]

\* A deal log over both instruments, read row by row.
ReadDealRow ==
    /\ Len(log) < MaxDeals
    /\ \E r \in RowsMatch(Len(log) + 1) : ParseDeal(r)

Init == InitTE /\ JoinIdle /\ MCIdle /\ WFIdle /\ FnIdle /\ WSIdle /\ PSIdle

Next == ReadDealRow \/ ReturnResult

Spec == Init /\ [][Next]_vars

\* A deal log that starts with a deposit row and carries a positive running
\* balance on every row.
ReadDepositRow ==
    /\ log = <<>>
    /\ ParseDeal(BalanceRow(1, 1000, 1000))

ReadBalancedRow ==
    /\ log # <<>>
    /\ Len(log) < MaxBalanceDeals
    /\ \E r \in RowsBalance(Len(log) + 1, Last(log).balance) : ParseDeal(r)

NextBalance == ReadDepositRow \/ ReadBalancedRow \/ ReturnResult

SpecBalance == Init /\ [][NextBalance]_vars

\* A deal log with deposits and withdrawals anywhere, read row by row
ReadMarkerRow ==
    /\ Len(log) < MaxMarkerDeals
    /\ \E r \in RowsMarkers(Len(log) + 1,
                             IF previous_balance = <<>> THEN 0
                             ELSE previous_balance[1]) : ParseDeal(r)

NextMarkers == ReadMarkerRow \/ ReturnResult

SpecMarkers == Init /\ [][NextMarkers]_vars

\* One parse() call on the two exports of one optimization run
InitParser == InitTE /\ InitJoin /\ MCIdle /\ WFIdle /\ FnIdle /\ WSIdle /\ PSIdle

NextJoin == Parse

SpecJoin == InitParser /\ [][NextJoin]_vars

\* One simulator after another on one trade list, each run() once
InitSimulator == InitTE /\ JoinIdle /\ InitMC /\ WFIdle /\ FnIdle /\ WSIdle /\ PSIdle

NextMC == RunStart \/ Iterate \/ Finish \/ ConstructSeeded \/ ConstructUnseeded

SpecMC == InitSimulator /\ [][NextMC]_vars

\* The is_robust property of a MonteCarloResult
InitResult == InitTE /\ JoinIdle /\ InitVerdict /\ WFIdle /\ FnIdle /\ WSIdle /\ PSIdle

NextVerdict == ReadIsRobust

SpecVerdict == InitResult /\ [][NextVerdict]_vars

\* _fold_windows on testers of every fold shape
InitScheduler == InitTE /\ JoinIdle /\ MCIdle /\ InitFolds /\ FnIdle /\ WSIdle /\ PSIdle

NextFolds == FoldWindowsCall

SpecFolds == InitScheduler /\ [][NextFolds]_vars

\* _fold_windows statement by statement; the interpreter keeps running it
NextFoldLoop == FoldWindowsEnter \/ FoldLoopIterate

SpecFoldLoop == InitScheduler /\ [][NextFoldLoop]_vars /\ WF_vars(NextFoldLoop)

\* Two post-step modules running at once on one state file
InitModules ==
    InitTE /\ JoinIdle /\ MCIdle /\ WFIdle /\ FnIdle /\ WSIdle /\ InitPostSteps

NextPostSteps ==
    \/ StartLoads \/ StartSaves
    \/ CompleteLoads \/ CompleteSaves
    \/ FailLoads \/ FailSaves

SpecPostSteps == InitModules /\ [][NextPostSteps]_vars

\* _add_months on every date of two years
InitCalendar == InitTE /\ JoinIdle /\ MCIdle /\ WFIdle /\ InitAddMonths /\ WSIdle /\ PSIdle

NextCalendar == AddMonthsCall

SpecCalendar == InitCalendar /\ [][NextCalendar]_vars

\* test() on a constructed tester, then main's summary of its result
InitWalkForward == InitTE /\ JoinIdle /\ MCIdle /\ InitTest /\ FnIdle /\ WSIdle /\ PSIdle

NextWalkForward == TestBegin \/ RunIS \/ RunOOS \/ TestReturn \/ Summarize

SpecWalkForward == InitWalkForward /\ [][NextWalkForward]_vars

\* The two percentile functions on every short list
InitPercentiles == InitTE /\ JoinIdle /\ MCIdle /\ WFIdle /\ InitPercentile /\ WSIdle /\ PSIdle

NextPercentiles == PercentileCall

SpecPercentile == InitPercentiles /\ [][NextPercentiles]_vars

\* One workflow, any sequence of start_step, complete_step and fail_step
InitManager == InitTE /\ JoinIdle /\ MCIdle /\ WFIdle /\ FnIdle /\ InitWorkflow /\ PSIdle

NextWorkflow == StartStepCall \/ CompleteStepCall \/ FailStepCall

SpecWorkflow == InitManager /\ [][NextWorkflow]_vars

(***************************************************************************)
(* Claims about the Trade Reconstructor                                    *)
(***************************************************************************)
SetMax(S) == CHOOSE x \in S : \A y \in S : y <= x

IsOpenFor(i, key) ==
    /\ log[i].type \in DealTypes
    /\ log[i].direction = "in"
    /\ <<log[i].symbol, log[i].type>> = key

\* The opening rows before row j, of the instrument of closing row j and the
\* opposite side, that none of the trades before the t-th was built from.
StillPending(t, j) ==
    {i \in 1..(j - 1) :
        /\ IsOpenFor(i, <<log[j].symbol, OpenDir(log[j].type)>>)
        /\ \A u \in 1..(t - 1) : trades[u].entry_price # log[i].price}

\* C1: every closing deal is paired with the most recently opened opening
\* deal of the same instrument and the opposite side that is still pending
\* (last in, first out): the trade's entry price is that opening's price.
C1_LifoPairing ==
    \A t \in 1..Len(trades) :
        LET j == trades[t].deal_id
            pend == StillPending(t, j)
        IN  /\ log[j].direction = "out"
            /\ trades[t].exit_price = log[j].price
            /\ pend # {} => trades[t].entry_price = log[SetMax(pend)].price

\* Opens O1, O2 then closes C1, C2 on one instrument: O2 is paired with C1
\* and O1 with C2.
C1_Witness ==
    /\ Len(log) = 4
    /\ \A i \in {1, 2} : IsOpenFor(i, <<"EURUSD", "buy">>)
    /\ \A j \in {3, 4} : /\ log[j].direction = "out"
                         /\ log[j].type = "sell"
                         /\ log[j].symbol = "EURUSD"
    /\ Len(trades) = 2
    /\ trades[1].entry_price = PriceAt(2) /\ trades[1].exit_price = PriceAt(3)
    /\ trades[2].entry_price = PriceAt(1) /\ trades[2].exit_price = PriceAt(4)

\* C2: for a deal log that starts with a deposit row and carries a positive
\* running balance on every row, the result satisfies
\* initial_balance + sum of net_profit over the trades = final_balance.
C2_BalanceConservation ==
    (/\ te_result # <<>>
     /\ log # <<>>
     /\ log[1].type = "balance"
     /\ \A i \in 1..Len(log) : log[i].balance > 0)
    => te_result[1].initial_balance + SumSeq(NetProfits(te_result[1].trades))
           = te_result[1].final_balance

(***************************************************************************)
(* Claims about the Optimization Pass Joiner                               *)
(***************************************************************************)
RowPasses(file) == {file.rows[i].pass : i \in 1..Len(file.rows)}
RowProfit(file, p) ==
    file.rows[CHOOSE i \in 1..Len(file.rows) : file.rows[i].pass = p].profit

InBothTables == RowPasses(insample_xml) \cap RowPasses(forward_xml)

RobustSet ==
    {p \in InBothTables :
        RowProfit(insample_xml, p) > 0 /\ RowProfit(forward_xml, p) > 0}

ParsedTables ==
    /\ parse_result # <<>>
    /\ insample_xml.exists /\ insample_xml.has_pass
    /\ forward_xml.exists /\ forward_xml.has_pass

\* C3: the robust set is exactly the set of pass numbers that occur in both
\* tables with in-sample profit > 0 and forward profit > 0; total_passes
\* counts the passes present in both tables, robust_passes the robust set.
C3_RobustIsBothPositive ==
    ParsedTables =>
        /\ parse_result[1].success
        /\ {robust_only[i].pass_num : i \in 1..Len(robust_only)} = RobustSet
        /\ parse_result[1].total_passes = Cardinality(InBothTables)
        /\ parse_result[1].robust_passes = Cardinality(RobustSet)

\* A run with a pass profitable in-sample only, a pass missing from each
\* table and one robust pass.
C3_Witness ==
    /\ ParsedTables
    /\ \E p \in InBothTables :
          RowProfit(insample_xml, p) = 5 /\ RowProfit(forward_xml, p) = -1
    /\ \E p \in InBothTables :
          RowProfit(insample_xml, p) = 5 /\ RowProfit(forward_xml, p) = 1
    /\ RowPasses(insample_xml) \ RowPasses(forward_xml) # {}
    /\ RowPasses(forward_xml) \ RowPasses(insample_xml) # {}
    /\ parse_result[1].robust_passes = 1

\* C4: the robust passes are ordered by in-sample + forward profit,
\* descending; best is the first of them (no robust pass has a larger sum),
\* the top list is the first min(5, robust_passes) of them; with no robust
\* pass the result is successful with robust_passes = 0, no best and an
\* empty top list.
C4_RankedByTotalProfit ==
    ParsedTables =>
        LET res == parse_result[1]
            n == Cardinality(RobustSet)
        IN  /\ res.success
            /\ Len(robust_only) = n
            /\ \A i \in 1..Len(robust_only) :
                  robust_only[i].total_profit =
                      RowProfit(insample_xml, robust_only[i].pass_num)
                          + RowProfit(forward_xml, robust_only[i].pass_num)
            /\ \A i \in 1..(Len(robust_only) - 1) :
                  robust_only[i].total_profit >= robust_only[i + 1].total_profit
            /\ Len(res.top_5) = (IF n < 5 THEN n ELSE 5)
            /\ \A i \in 1..Len(res.top_5) : res.top_5[i] = robust_only[i]
            /\ n > 0 =>
                  /\ res.best = <<robust_only[1]>>
                  /\ \A p \in RobustSet :
                        RowProfit(insample_xml, p) + RowProfit(forward_xml, p)
                            <= res.best[1].total_profit
            /\ n = 0 => /\ res.robust_passes = 0
                        /\ res.best = <<>>
                        /\ res.top_5 = <<>>

\* More than five robust passes with different sums, listed out of order in
\* the export: the top list is cut to five.
C4_Witness ==
    /\ ParsedTables
    /\ parse_result[1].robust_passes > 5
    /\ Len(parse_result[1].top_5) = 5
    /\ RowProfit(insample_xml, 1) = 5
    /\ parse_result[1].best[1].total_profit = 121
    /\ robust_only[Len(robust_only)].total_profit = 6

\* C5: when either export is missing or cannot be parsed (no header row, no
\* Pass column), parse returns a failure (success = false), not a
\* successful empty join.
C5_UnparsableFails ==
    (/\ parse_result # <<>>
     /\ \/ ~insample_xml.exists \/ ~insample_xml.has_pass
        \/ ~forward_xml.exists \/ ~forward_xml.has_pass)
    => ~parse_result[1].success

(***************************************************************************)
(* Claims about the Monte Carlo Resampler                                  *)
(***************************************************************************)
\* C6: run on an empty trade list returns, without raising, a result with
\* iterations = 0, confidence_level = 0, probability_of_ruin = 100 and
\* trade_count = 0, whatever the initial balance and the configured
\* iteration count.
C6_EmptyTradesDegenerate ==
    (mc_trades = <<>> /\ mc_pc \notin {"idle", "ready"}) =>
        /\ mc_pc = "done"
        /\ mc_result # <<>>
        /\ mc_result[1].iterations = 0
        /\ mc_result[1].confidence_level.num = 0
        /\ mc_result[1].probability_of_ruin.num
               = 100 * mc_result[1].probability_of_ruin.den
        /\ mc_result[1].trade_count = 0
        /\ mc_result[1].initial_balance = mc_initial_balance

\* run returned on an empty list although iterations were configured
C6_Witness ==
    /\ mc_trades = <<>>
    /\ mc_pc = "done"
    /\ iterations > 0
    /\ mc_initial_balance = 200
    /\ mc_result[1].iterations = 0

\* C7: is_robust is true if and only if confidence_level >= 70 and
\* probability_of_ruin <= 5, both bounds inclusive.
C7_RobustVerdict ==
    is_robust # <<>> =>
        LET conf == mc_result[1].confidence_level
            ruin == mc_result[1].probability_of_ruin
        IN  is_robust[1] <=> (conf.num >= 70 * conf.den /\ ruin.num <= 5 * ruin.den)

\* A result on both bounds: confidence 70, ruin probability 5
C7_Witness ==
    /\ is_robust = <<TRUE>>
    /\ mc_result[1].confidence_level = Frac(140, 2)
    /\ mc_result[1].probability_of_ruin = Frac(10, 2)

Occurrences(s, x) == Cardinality({i \in 1..Len(s) : s[i] = x})

IsPermutationOf(a, b) ==
    /\ Len(a) = Len(b)
    /\ \A i \in 1..Len(b) : Occurrences(a, b[i]) = Occurrences(b, b[i])

\* C8: in every iteration the replayed list is a permutation of the net
\* profits, and final equity minus the initial balance equals the sum of
\* the net profits in their original order (original_profit).
C8_PermutationInvariance ==
    /\ Len(shuffled_log) = Len(results)
    /\ \A i \in 1..Len(results) :
          /\ IsPermutationOf(shuffled_log[i], profits)
          /\ results[i].final_equity - mc_initial_balance = original_profit
          /\ original_profit
                 = SumSeq([t \in 1..Len(mc_trades) |-> mc_trades[t].net_profit])

\* Two iterations replaying different orders, with different drawdowns
C8_Witness ==
    /\ Len(results) >= 2
    /\ shuffled_log[1] # shuffled_log[2]
    /\ results[1].max_drawdown # results[2].max_drawdown
    /\ results[1].final_equity = results[2].final_equity

\* equity after the first k profits of a replayed list
EquityAfter(seq, k) == mc_initial_balance + SumSeq(SubSeq(seq, 1, k))

\* equity, in hundredths, against the ruin floor
\* initial_balance * (1 - ruin_threshold_pct / 100), in hundredths
FloorTimes100 == mc_initial_balance * (100 - ruin_threshold_pct)

C10_SeededRunRepeats ==
    (mc_pc = "done" /\ run_seed # <<>>) =>
        /\ first_seeded[run_seed[1]] # <<>>
        /\ first_seeded[run_seed[1]][1].result = mc_result[1]

\* A seeded run repeated, on a list that the shuffle reorders from one
\* iteration to the next
C10_Witness ==
    /\ mc_pc = "done"
    /\ run_seed # <<>>
    /\ first_seeded[run_seed[1]] # <<>>
    /\ first_seeded[run_seed[1]][1].count >= 2
    /\ Len(shuffled_log) >= 2
    /\ shuffled_log[1] # profits
    /\ shuffled_log[2] # shuffled_log[1]

(***************************************************************************)
(* Claims about the Walk-Forward Fold Scheduler                            *)
(***************************************************************************)
FoldsReturned == wf_pc # "idle" /\ wf_pc # "ready"

\* C11: the folds returned by _fold_windows have non-decreasing
\* out-of-sample start dates, for every integer fold shape: fold k+1 never
\* starts before fold k.
C11_NonDecreasingStarts ==
    FoldsReturned =>
        \A k \in 1..(Len(wf_folds) - 1) : wf_folds[k][3] <= wf_folds[k + 1][3]

\* C12: every fold returned by _fold_windows has from_date <= is_from,
\* oos_from < oos_to and oos_to <= to_date: no out-of-sample window extends
\* past the requested range end.
C12_FoldRangeBound ==
    FoldsReturned =>
        \A k \in 1..Len(wf_folds) :
            /\ wf_args[1].from_date <= wf_folds[k][1]
            /\ wf_folds[k][3] < wf_folds[k][4]
            /\ wf_folds[k][4] <= wf_args[1].to_date

\* Two folds or more, the last one's window cut at the range end
C12_Witness ==
    /\ wf_pc = "windows"
    /\ Len(wf_folds) >= 2
    /\ wf_folds[Len(wf_folds)][4] = wf_args[1].to_date
    /\ FmtYmd(AddMonths(ParseYmd(wf_folds[Len(wf_folds)][3]), wf_self[1].fold_months))
           > wf_args[1].to_date

\* C13 as claimed: every fold's out-of-sample window is exactly fold_months
\* calendar months long (oos_to = oos_from plus fold_months), and no fold is
\* emitted whose window would end after the range end.
C13_ExactLengthOrStop ==
    FoldsReturned =>
        \A k \in 1..Len(wf_folds) :
            wf_folds[k][4] =
                FmtYmd(AddMonths(ParseYmd(wf_folds[k][3]), wf_self[1].fold_months))

EarlierOf(a, b) == IF a <= b THEN a ELSE b

\* The out-of-sample start the loop would try after the folds returned
NextOosStart ==
    IF wf_folds = <<>>
    THEN AddMonths(ParseYmd(wf_args[1].from_date), wf_self[1].min_is_months)
    ELSE AddMonths(ParseYmd(wf_folds[Len(wf_folds)][3]), wf_self[1].step_months)

\* C13 amended: every fold's out-of-sample window ends at the earlier of
\* oos_from plus fold_months and the range end (a window that would end
\* after the range end is emitted cut at the range end), and generation
\* stops only when max_folds is reached, the next out-of-sample start is
\* not before the range end or not after the range start, or the next
\* window would be empty.
C13_LengthOrCutAtEnd ==
    (FoldsReturned /\ wf_args[1].from_date < wf_args[1].to_date) =>
        /\ \A k \in 1..Len(wf_folds) :
              wf_folds[k][4] =
                  EarlierOf(FmtYmd(AddMonths(ParseYmd(wf_folds[k][3]),
                                             wf_self[1].fold_months)),
                            wf_args[1].to_date)
        /\ \/ Len(wf_folds) >= wf_self[1].max_folds
           \/ FmtYmd(NextOosStart) >= wf_args[1].to_date
           \/ FmtYmd(NextOosStart) <= wf_args[1].from_date
           \/ EarlierOf(FmtYmd(AddMonths(NextOosStart, wf_self[1].fold_months)),
                        wf_args[1].to_date) <= FmtYmd(NextOosStart)

\* A full-length fold followed by a fold cut at the range end
C13_Witness ==
    /\ wf_pc = "windows"
    /\ Len(wf_folds) = 2
    /\ wf_self[1].max_folds > 2
    /\ wf_folds[1][4] = FmtYmd(AddMonths(ParseYmd(wf_folds[1][3]), wf_self[1].fold_months))
    /\ wf_folds[2][4] < FmtYmd(AddMonths(ParseYmd(wf_folds[2][3]), wf_self[1].fold_months))

\* Days of each month, by the calendar
DaysInMonth(y, m) ==
    <<31, IF (y % 4 = 0 /\ y % 100 # 0) \/ y % 400 = 0 THEN 29 ELSE 28,
      31, 30, 31, 30, 31, 31, 30, 31, 30, 31>>[m]

\* C14: _add_months(d, m) lies in the calendar month exactly m months after
\* d's month and its day is min(d.day, days of that month); it never rolls
\* over into the following month.
C14_AddMonthsClamps ==
    am_ret # <<>> =>
        LET d == am_args[1].d
            r == am_ret[1]
        IN  /\ r.month \in 1..12
            /\ r.year * 12 + (r.month - 1)
                   = d.year * 12 + (d.month - 1) + am_args[1].months
            /\ r.day = (IF d.day <= DaysInMonth(r.year, r.month)
                        THEN d.day ELSE DaysInMonth(r.year, r.month))

\* Jan 31 2024 + 1 month is Feb 29 2024
C14_Witness ==
    /\ am_ret = <<Date(2024, 2, 29)>>
    /\ am_args = <<[d |-> Date(2024, 1, 31), months |-> 1]>>

TestReturned == wf_pc \in {"returned", "summarized"}

\* The windows test must submit, in order: per fold the in-sample window
\* (when include_is) and then the out-of-sample window
RECURSIVE WindowsToRun(_, _)
WindowsToRun(folds, include_is) ==
    IF folds = <<>> THEN <<>>
    ELSE LET w == Last(folds)
             k == Len(folds)
             own == IF include_is
                    THEN << <<w[1], w[2], <<k, "IS">> >>, <<w[3], w[4], <<k, "OOS">> >> >>
                    ELSE << <<w[3], w[4], <<k, "OOS">> >> >>
         IN  WindowsToRun(Front(folds), include_is) \o own

WindowsRun ==
    [i \in 1..Len(engine_requests) |->
        <<engine_requests[i].request.from_date, engine_requests[i].request.to_date,
          engine_requests[i].request.run_dir>>]

\* The runner's answer to the request for run_dir
AnswerFor(run_dir) ==
    engine_requests[CHOOSE i \in 1..Len(engine_requests) :
                        engine_requests[i].request.run_dir = run_dir].answer

\* C15: test submits each generated window to the engine exactly once and
\* returns one FoldResult per generated fold, in generation order with
\* fold_index 1..n, whatever fails; a window whose run failed or whose
\* report could not be parsed is a PeriodResult with success = false and an
\* error, and the later folds are still run.
C15_FailureIsolation ==
    TestReturned =>
        LET res == wf_result[1].folds
        IN  /\ WindowsRun = WindowsToRun(wf_folds, wf_self[1].include_is)
            /\ Len(res) = Len(wf_folds)
            /\ \A k \in 1..Len(res) :
                  /\ res[k].fold_index = k
                  /\ res[k].oos_result.from_date = wf_folds[k][3]
                  /\ res[k].oos_result.to_date = wf_folds[k][4]
                  /\ (res[k].is_result # <<>>) = wf_self[1].include_is
                  /\ AnswerFor(<<k, "OOS">>).kind # "parsed" =>
                        /\ ~res[k].oos_result.success
                        /\ res[k].oos_result.error # <<>>
                  /\ (wf_self[1].include_is /\ AnswerFor(<<k, "IS">>).kind # "parsed") =>
                        /\ ~res[k].is_result[1].success
                        /\ res[k].is_result[1].error # <<>>

\* Three folds returned although the first fold's two runs failed and the
\* second fold's report could not be parsed
C15_Witness ==
    /\ TestReturned
    /\ Len(wf_result[1].folds) = 3
    /\ wf_self[1].include_is
    /\ ~wf_result[1].folds[1].is_result[1].success
    /\ wf_result[1].folds[1].oos_result.error = <<"Backtest failed">>
    /\ wf_result[1].folds[2].oos_result.error = <<"Failed to parse report">>
    /\ wf_result[1].folds[3].oos_result.success

\* C16: every backtest request test issues, for the in-sample and the
\* out-of-sample window of every fold, carries the parameter set given at
\* construction; it does not change between requests or folds.
C16_FixedParameters ==
    \A i \in 1..Len(engine_requests) :
        engine_requests[i].request.inputs = wf_self[1].inputs

\* Six requests over three folds with the parameter set Period = 21
C16_Witness ==
    /\ TestReturned
    /\ Len(engine_requests) = 6
    /\ wf_self[1].inputs = [Period |-> 21]
    /\ engine_requests[6].request.run_dir = <<3, "OOS">>

FracEq(a, b) == a.num * b.den = b.num * a.den

OptFracEq(a, b) == IF a = <<>> \/ b = <<>> THEN a = b ELSE FracEq(a[1], b[1])

\* C17: the cross-fold summary (median and worst out-of-sample profit
\* factor, median and worst out-of-sample ROI%) is computed only over the
\* folds whose out-of-sample window was run and parsed; a failed fold
\* contributes no value to the median or to the worst.
C17_SummaryOverSuccessful ==
    wf_pc = "summarized" =>
        LET folds == wf_result[1].folds
            pfs == MetricsOfSuccessful(folds, "profit_factor")
            rois == MetricsOfSuccessful(folds, "roi_pct")
        IN  /\ OptFracEq(wf_summary[1].oos_pf_median, Median(pfs))
            /\ wf_summary[1].oos_pf_worst = Worst(pfs)
            /\ OptFracEq(wf_summary[1].oos_roi_median, Median(rois))
            /\ wf_summary[1].oos_roi_worst = Worst(rois)

(***************************************************************************)
(* Claims about the percentile functions                                   *)
(***************************************************************************)
SeqMin(s) == CHOOSE x \in {s[i] : i \in 1..Len(s)} : \A i \in 1..Len(s) : x <= s[i]

SeqMax(s) == CHOOSE x \in {s[i] : i \in 1..Len(s)} : \A i \in 1..Len(s) : x >= s[i]

FracIs(x, n) == x.num = n * x.den

FracLeq(a, b) == a.num * b.den <= b.num * a.den

\* C18: for every non-empty list, both percentile functions return the
\* minimum at p = 0 and the maximum at p = 100, and for
\* 0 <= p1 <= p2 <= 100 percentile(p1) <= percentile(p2).
C18_PercentileBounds ==
    (pct_ret # <<>> /\ pct_args[1].data # <<>>) =>
        LET data == pct_args[1].data
            r == pct_ret[1]
        IN  /\ pct_args[1].p1 = 0 =>
                  FracIs(r.mc1, SeqMin(data)) /\ FracIs(r.dash1, SeqMin(data))
            /\ pct_args[1].p2 = 100 =>
                  FracIs(r.mc2, SeqMax(data)) /\ FracIs(r.dash2, SeqMax(data))
            /\ FracLeq(r.mc1, r.mc2)
            /\ FracLeq(r.dash1, r.dash2)

\* An unsorted list: the minimum at 0, an interpolated value at 95
C18_Witness ==
    /\ pct_ret # <<>>
    /\ pct_args[1] = [data |-> <<12, -7, 3>>, p1 |-> 0, p2 |-> 95]
    /\ pct_ret[1].mc1 = Frac(-700, 100)
    /\ pct_ret[1].mc2 = Frac(1110, 100)
    /\ pct_ret[1].dash2 = Frac(1110, 100)

(***************************************************************************)
(* Claims about the Workflow State Manager                                 *)
(***************************************************************************)
InProgress == {s \in DOMAIN ws_steps : ws_steps[s].status = "in_progress"}

\* C19: after any sequence of start_step, complete_step and fail_step calls
\* on one workflow, at most one step has status IN_PROGRESS.
C19_OneInProgress == Cardinality(InProgress) <= 1

DepsOf(s) == {STEP_DEPENDENCIES[s][i] : i \in 1..Len(STEP_DEPENDENCIES[s])}

RequiredSteps == StepNames \ {"2b_fix_errors"}

\* Every required step that has reached PASSED did so after its dependencies
PassedAfterDependencies ==
    \A s \in ws_passed_ever \cap RequiredSteps : DepsOf(s) \subseteq ws_passed_ever

\* What one call may do: a step becomes PASSED only by a successful
\* complete_step on it while it is IN_PROGRESS; start_step on a required
\* step with a dependency that is not PASSED is rejected and changes no
\* step's status
CallKeepsOrder ==
    /\ \A s \in StepNames :
          (ws_steps'[s].status = "passed" /\ ws_steps[s].status # "passed") =>
              /\ ws_steps[s].status = "in_progress"
              /\ CompleteStep(s)
              /\ ws_ret' = <<TRUE>>
    /\ \A s \in StepNames :
          (CompleteStep(s) /\ ws_ret' = <<TRUE>>) => ws_steps[s].status = "in_progress"
    /\ \A s \in RequiredSteps :
          (StartStep(s) /\ \E dep \in DepsOf(s) : ws_steps[dep].status # "passed") =>
              /\ ws_ret' = <<FALSE>>
              /\ \A x \in StepNames : ws_steps'[x].status = ws_steps[x].status

FoldCountBounded ==
    (wf_pc \in {"loop", "windows"}) =>
        /\ Len(wf_folds) <= wf_self[1].max_folds
        /\ wf_args[1].to_date <= wf_args[1].from_date => wf_folds = <<>>

IsClose(r) == r.type \in DealTypes /\ r.direction = "out"

\* The number of opening deals of (instrument, side) key that the first n
\* rows of the log leave pending, counted from the log alone
RECURSIVE PendingAfter(_, _)
PendingAfter(n, key) ==
    IF n = 0 THEN 0
    ELSE LET r == log[n]
             p == PendingAfter(n - 1, key)
         IN  IF r.type \notin DealTypes THEN p
             ELSE IF r.direction = "in" /\ <<r.symbol, r.type>> = key
             THEN p + 1
             ELSE IF r.direction = "out" /\ p > 0
                     /\ <<r.symbol, OpenDir(r.type)>> = key
             THEN p - 1
             ELSE p

Unmatched(j) ==
    /\ IsClose(log[j])
    /\ PendingAfter(j - 1, <<log[j].symbol, OpenDir(log[j].type)>>) = 0

TradesOf(j) == {t \in 1..Len(trades) : trades[t].deal_id = j}

\* C22: a closing deal that finds no pending opening deal of its instrument
\* and the opposite side still yields exactly one trade, with entry price 0,
\* the direction opposite to the closing deal's side, and the closing leg's
\* commission and swap alone; the extraction reports success.
C22_UnmatchedClose ==
    /\ \A j \in 1..Len(log) :
          Unmatched(j) =>
              /\ Cardinality(TradesOf(j)) = 1
              /\ \A t \in TradesOf(j) :
                    /\ trades[t].entry_price = 0
                    /\ trades[t].direction = OpenDir(log[j].type)
                    /\ trades[t].commission = log[j].commission
                    /\ trades[t].swap = log[j].swap
                    /\ trades[t].exit_price = log[j].price
    /\ te_result # <<>> =>
          /\ te_result[1].success
          /\ te_result[1].trades = trades

\* A log that opens with a sell close of EURUSD nobody opened, then opens a
\* buy: the result holds the synthesized buy trade
C22_Witness ==
    /\ te_result # <<>>
    /\ Len(log) >= 2
    /\ Unmatched(1) /\ log[1].type = "sell"
    /\ IsOpenFor(2, <<"EURUSD", "buy">>)
    /\ te_result[1].trades[1].entry_price = 0
    /\ te_result[1].trades[1].direction = "buy"

BalanceRowsOf(l) == {i \in 1..Len(l) : l[i].type = "balance"}
PositiveRowsOf(l) == {i \in 1..Len(l) : l[i].balance > 0}

NoBalanceRowTraded ==
    \A t \in 1..Len(trades) : log[trades[t].deal_id].type # "balance"

\* C23 as stated: the result's final_balance is the running balance of the
\* last deposit/withdrawal row of the log, and no balance row is a trade.
C23_FinalBalanceOfLastBalanceRow ==
    /\ (te_result # <<>> /\ BalanceRowsOf(log) # {}) =>
          te_result[1].final_balance = log[SetMax(BalanceRowsOf(log))].balance
    /\ NoBalanceRowTraded

\* C23: the result's final_balance is the running balance of the last row
\* of the log that reports a positive balance, a buy/sell row as much as a
\* deposit/withdrawal row (0 when no row does), and no balance row is a
\* trade.
C23_FinalBalanceOfLastPositiveRow ==
    /\ te_result # <<>> =>
          te_result[1].final_balance =
              IF PositiveRowsOf(log) = {} THEN 0
              ELSE log[SetMax(PositiveRowsOf(log))].balance
    /\ NoBalanceRowTraded

\* A deposit of 500, an opening buy, and a closing sell that reports the
\* balance 507: the result's final balance is 507, not the deposit row's 500
C23_Witness ==
    /\ te_result # <<>>
    /\ Len(log) = 3
    /\ log[1].type = "balance" /\ log[1].balance = 500
    /\ IsOpenFor(2, <<"EURUSD", "buy">>)
    /\ IsClose(log[3]) /\ log[3].balance = 507
    /\ te_result[1].final_balance = 507
    /\ Len(te_result[1].trades) = 1

(***************************************************************************)
(* Further claims about the Monte Carlo Resampler                          *)
(***************************************************************************)
\* C24: no step of run changes the caller's trade list: the same trades in
\* the same order with the same fields, from the call to the return, and the
\* profits read from it stay in trade order.
C24_InputUnchanged ==
    /\ [][mc_trades' = mc_trades]_vars
    /\ [](profits # <<>> => profits = NetProfits(mc_trades))

\* A run has returned after an iteration whose shuffle reordered the profits
C24_Witness ==
    /\ mc_pc = "done"
    /\ mc_result # <<>>
    /\ \E i \in 1..Len(shuffled_log) : shuffled_log[i] # profits
    /\ profits = NetProfits(mc_trades)

(***************************************************************************)
(* Deal accounting                                                         *)
(***************************************************************************)
ClosesIn(l) == {j \in 1..Len(l) : IsClose(l[j])}
OpensOf(key) == {i \in 1..Len(log) : IsOpenFor(i, key)}

\* The trades built from opening row i: its price is its own
BuiltFrom(i) == {t \in 1..Len(trades) : trades[t].entry_price = log[i].price}

\* After every prefix: one trade per closing deal, every opening deal in at
\* most one trade, and per (instrument, side) as many pending entries as
\* opens minus the opens that a close consumed
DealAccounts ==
    /\ Len(trades) = Cardinality(ClosesIn(log))
    /\ \A j \in ClosesIn(log) : Cardinality(TradesOf(j)) = 1
    /\ \A key \in Keys :
          /\ \A i \in OpensOf(key) : Cardinality(BuiltFrom(i)) <= 1
          /\ Len(open_positions[key]) =
                 Cardinality(OpensOf(key))
                     - Cardinality({i \in OpensOf(key) : BuiltFrom(i) # {}})
          /\ Len(open_positions[key]) = PendingAfter(Len(log), key)

\* Reading one row: the stacks of the other instrument stay as they are,
\* and a row that is neither "in" nor "out" changes no stack and no trade
RowKeepsOthers ==
    Len(log') = Len(log) + 1 =>
        LET r == Last(log')
        IN  /\ \A key \in Keys :
                  key[1] # r.symbol =>
                      open_positions'[key] = open_positions[key]
            /\ r.direction \notin {"in", "out"} =>
                  /\ open_positions' = open_positions
                  /\ trades' = trades

\* C25: after any prefix of a deal log every closing buy/sell deal has
\* produced exactly one trade, every opening deal was consumed by at most one
\* close, each (instrument, side) stack holds its opens minus the closes
\* matched to it; a deal never changes another instrument's stacks and a row
\* that is neither "in" nor "out" changes no stack and produces no trade.
C25_DealAccounting == []DealAccounts /\ [][RowKeepsOthers]_vars

\* An open on each instrument, a row that is neither leg, and a close of the
\* first: one trade, the other instrument's open still pending
C25_Witness ==
    /\ Len(log) = 4
    /\ IsOpenFor(1, <<"EURUSD", "buy">>)
    /\ IsOpenFor(2, <<"GBPUSD", "buy">>)
    /\ log[3].direction = "in/out"
    /\ IsClose(log[4]) /\ log[4].symbol = "EURUSD" /\ log[4].type = "sell"
    /\ Len(trades) = 1 /\ trades[1].entry_price = PriceAt(1)
    /\ open_positions[<<"EURUSD", "buy">>] = <<>>
    /\ Len(open_positions[<<"GBPUSD", "buy">>]) = 1

RunReturned == mc_pc = "done" /\ mc_result # <<>> /\ mc_trades # <<>>

\* C26: for a non-empty trade list and at least one iteration every replay
\* ends on the same profit, so the median, the mean and the 5th and 95th
\* percentiles of the profit all equal original_profit, its standard
\* deviation is 0, and the confidence level is 100 when original_profit > 0
\* and 0 otherwise.
C26_DegenerateProfitDistribution ==
    RunReturned =>
        LET res == mc_result[1]
        IN  /\ res.iterations >= 1
            /\ \A i \in 1..Len(results) :
                  results[i].final_equity - mc_initial_balance = original_profit
            /\ res.original_profit = SumSeq(NetProfits(mc_trades))
            /\ FracIs(res.median_profit, res.original_profit)
            /\ FracIs(res.mean_profit, res.original_profit)
            /\ FracIs(res.profit_5th_percentile, res.original_profit)
            /\ FracIs(res.profit_95th_percentile, res.original_profit)
            /\ FracIs(res.profit_std, 0)
            /\ FracIs(res.confidence_level,
                      IF res.original_profit > 0 THEN 100 ELSE 0)

\* Two iterations over trades that win on balance, one of them reordered:
\* confidence 100
C26_Witness ==
    /\ RunReturned
    /\ mc_result[1].iterations = 2
    /\ mc_result[1].original_profit > 0
    /\ \E i \in 1..2 : shuffled_log[i] # profits
    /\ FracIs(mc_result[1].confidence_level, 100)
    /\ FracIs(mc_result[1].median_profit, mc_result[1].original_profit)

\* C27: run returns a MonteCarloResult and never raises, for every trade
\* list, empty or not, and every iteration count N >= 0.
C27_RunNeverFaults == mc_pc # "raised"

(***************************************************************************)
(* The in-sample window of a fold                                          *)
(***************************************************************************)
\* C28: every fold returned by _fold_windows has is_from equal to the range
\* start and is_to equal to its own oos_from, so its in-sample and
\* out-of-sample windows neither overlap nor leave a gap, and its in-sample
\* window is not empty.
C28_AnchoredInSample ==
    wf_pc = "windows" =>
        \A k \in 1..Len(wf_folds) :
            /\ wf_folds[k][1] = wf_args[1].from_date
            /\ wf_folds[k][2] = wf_folds[k][3]
            /\ wf_folds[k][1] < wf_folds[k][2]

\* Two folds from one start, the second with the longer in-sample window
C28_Witness ==
    /\ wf_pc = "windows"
    /\ Len(wf_folds) >= 2
    /\ wf_folds[1][1] = wf_args[1].from_date
    /\ wf_folds[2][1] = wf_args[1].from_date
    /\ wf_folds[1][2] < wf_folds[2][2]
    /\ wf_folds[2][2] = wf_folds[2][3]

(***************************************************************************)
(* Claims about the post-step bookkeeping                                  *)
(***************************************************************************)
RecordsOf(p) ==
    {i \in 1..Len(ps_file) : ps_run_id[p] # <<>> /\ ps_file[i].id = ps_run_id[p][1]}

\* C29: with two post-step modules running at once on one state file, every
\* run that start_post_step has recorded stays in the file's post_steps
\* list, and once its process has called complete_post_step or
\* fail_post_step it carries that status: no save overwrites the other
\* process's record or status.
C29_NoLostUpdate ==
    \A p \in DOMAIN ps_pc :
        /\ ps_pc[p] \notin {"idle", "start_loaded"} => RecordsOf(p) # {}
        /\ ps_pc[p] = "done" =>
              \A i \in RecordsOf(p) : ps_file[i].status = ps_final[p][1]

(***************************************************************************)
(* The dependency invariant of the workflow                                *)
(***************************************************************************)
PassedNow == {s \in DOMAIN ws_steps : ws_steps[s].status = "passed"}

\* C30: in every state reached through start_step, complete_step and
\* fail_step each PASSED step other than 2b_fix_errors has all its
\* STEP_DEPENDENCIES PASSED at that moment, and a step that has PASSED is
\* still PASSED.
C30_DependenciesStayPassed ==
    /\ \A s \in PassedNow \cap RequiredSteps : DepsOf(s) \subseteq PassedNow
    /\ ws_passed_ever \subseteq PassedNow

====
